---- MODULE Spec2Model ----
(***************************************************************************)
(* A model of the discretization layer of RL/ODL:                          *)
(*   - the CUDA vector spaces CudaEN / CudaRN and their vectors            *)
(*     (src/RL/space/cuda.py),                                             *)
(*   - the scaled inner product and norm of the uniform and the pixel      *)
(*     discretization (src/RL/space/discretizations.py),                   *)
(*   - grid collocation and nearest neighbour interpolation                *)
(*     (src/odl/discr/discr_mappings.py).                                  *)
(*                                                                         *)
(* Numbers are exact integers (rationals where the code divides).  A       *)
(* float32 component is modelled by the integer it holds, which is exact   *)
(* for the magnitudes the model reaches (far below 2^24); a uint8          *)
(* component keeps its width: every store reduces the value modulo 2^8.    *)
(***************************************************************************)
EXTENDS Integers, Sequences, FiniteSets, TLC

VARIABLES space, mem, vecs, host, last, nops,
          dspace, dx, dres,
          grid, order, dvec, gres, fun,
          spcs, sres,
          maps, mres

vars == <<space, mem, vecs, host, last, nops, dspace, dx, dres,
          grid, order, dvec, gres, fun, spcs, sres, maps, mres>>

vecVars == <<space, mem, vecs, host, last, nops>>
discVars == <<dspace, dx, dres>>
gridVars == <<grid, order, dvec, gres, fun>>
spaceVars == <<spcs, sres>>
mapVars == <<maps, mres>>

(***************************************************************************)
(* Bounds of the model.                                                    *)
(***************************************************************************)
\* largest dimension n of a CudaEN / CudaRN space of the vector machine
MaxN == 2
\* number of vectors the vector machine creates at most
MaxVecs == 2
\* number of operations of one run of the vector machine
MaxOps == 3

\* largest magnitude of a component the vector machine computes with; the
\* integers up to it are exact in float32
MaxAbs == 1000

\* largest dimension of the space under a discretization
MaxDiscN == 4
\* largest side length of the interval or rectangle that is discretized
MaxLength == 2
\* number of spaces constructed in a behaviour of the space machine
MaxSpaces == 2

\* the coordinates a grid axis is made of: intervals with a midpoint and
\* with points nearer to either edge among the query coordinates
GridCoords == {0, 3, 4}
\* the coordinates of queries: on, between, below and above GridCoords
QueryCoords == {-1, 0, 1, 2, 3, 4, 5}

\* host values handed to element(data) and to __setitem__
HostVals == {-1, 200}
\* what an uninitialised device buffer may hold
UninitVals == {0, 7}
\* scalars handed to lincomb
Scalars == {-1, 2}
\* components of the vector whose inner product and norm are taken
DiscVals == {-2, 0, 1, 3}
\* coefficients of the functions handed to the collocation
FuncCoefs == {-1, 0, 1}

(***************************************************************************)
(* Generic helpers.                                                        *)
(***************************************************************************)
Range(s) == {s[i] : i \in DOMAIN s}

SeqsOfLen(S, n) == [1..n -> S]

RECURSIVE SumSeq(_)
SumSeq(s) == IF Len(s) = 0 THEN 0 ELSE Head(s) + SumSeq(Tail(s))

(***************************************************************************)
(* Scalar kinds.  CudaEN.dtypes maps np.float32 and np.uint8 to the device *)
(* vector implementations.                                                 *)
(***************************************************************************)
dtypes == {"float32", "uint8"}

\* bit width of the unsigned 8-bit kind
UCharBits == 8

\* the values of a scalar kind, as far as the model distinguishes them
Representable(dtype, v) ==
    IF dtype = "uint8" THEN v >= 0 /\ v < 2 ^ UCharBits ELSE TRUE

\* conversion of a number to the scalar kind (np.asarray(value, dtype=...),
\* and every store into a device buffer of that kind)
ToKind(dtype, v) == IF dtype = "uint8" THEN v % (2 ^ UCharBits) ELSE v

ToKindSeq(dtype, s) == [i \in DOMAIN s |-> ToKind(dtype, s[i])]

(***************************************************************************)
(* The device vector implementation RLcpp.PyCuda.CudaVectorImpl* (the      *)
(* compiled extension).  A buffer is a record of its element kind and its  *)
(* components; positions are 1-based here, Python indices 0-based.         *)
(***************************************************************************)
\* _vector_impl(n): a buffer of n components that nobody has written; what
\* it holds is not determined (the model samples buffers filled with one
\* leftover value)
ImplNew(dtype, n) ==
    {[kind |-> dtype, vals |-> [i \in 1..n |-> u]] : u \in UninitVals}

\* _vector_impl(n, 0): a buffer of n components, all set to the value
ImplFilled(dtype, n, value) ==
    [kind |-> dtype, vals |-> [i \in 1..n |-> ToKind(dtype, value)]]

\* z.linComb(a, x, b, y): z := a*x + b*y, component by component
linComb(z, a, x, b, y) ==
    [z EXCEPT !.vals = [i \in DOMAIN z.vals |->
                           ToKind(z.kind, a * x.vals[i] + b * y.vals[i])]]

\* y.multiply(x): y := x*y, component by component
multiply(y, x) ==
    [y EXCEPT !.vals = [i \in DOMAIN y.vals |->
                           ToKind(y.kind, x.vals[i] * y.vals[i])]]

\* x.inner(y): the Euclidean dot product
inner(x, y) == SumSeq([i \in DOMAIN x.vals |-> x.vals[i] * y.vals[i]])

\* x.norm(): the 2-norm, a non-negative real r given by its square r^2
norm(x) == [sq |-> SumSeq([i \in DOMAIN x.vals |-> x.vals[i] * x.vals[i]])]

\* data.getSlice(slice(start, stop)): a host copy of the addressed range
getSlice(b, index) ==
    [k \in 1..(index.stop - index.start) |-> b.vals[index.start + k]]

\* data.setSlice(slice(start, stop), value)
setSlice(b, index, value) ==
    [b EXCEPT !.vals = [k \in DOMAIN b.vals |->
        IF k > index.start /\ k <= index.stop
        THEN ToKind(b.kind, value[k - index.start])
        ELSE b.vals[k]]]

\* data.__getitem__(i)
implGetItem(b, index) == b.vals[index.i + 1]

\* data.__setitem__(i, value)
implSetItem(b, index, value) ==
    [b EXCEPT !.vals[index.i + 1] = ToKind(b.kind, value)]

(***************************************************************************)
(* Python indices: an integer or a slice with step 1.                      *)
(***************************************************************************)
IntIndex(i) == [slice |-> FALSE, i |-> i]
Slice(start, stop) == [slice |-> TRUE, start |-> start, stop |-> stop]
FullSlice(n) == Slice(0, n)

Indices(n) ==
    {IntIndex(i) : i \in 0..(n - 1)}
    \cup UNION {{Slice(lo, hi) : hi \in (lo + 1)..n} : lo \in 0..(n - 1)}

IndexLen(index) == IF index.slice THEN index.stop - index.start ELSE 1

(***************************************************************************)
(* CudaEN and CudaRN.                                                      *)
(***************************************************************************)
\* CudaEN.__init__ / CudaRN.__init__: the spaces that can be constructed
CudaSpaces ==
    {[cls |-> "CudaEN", n |-> n, dtype |-> d] : n \in 1..MaxN, d \in dtypes}
    \cup {[cls |-> "CudaRN", n |-> n, dtype |-> "float32"] : n \in 1..MaxN}

\* a mutant of CudaEN_zero: the fill value is forgotten, _vector_impl(n)
CudaEN_zero_NoFill(sp) ==
    [kind |-> sp.dtype, vals |-> [i \in 1..sp.n |-> 7]]

\* CudaEN.zero: the device buffer of the vector returned
CudaEN_zero(sp) == ImplFilled(sp.dtype, sp.n, 0)

\* Vector.__getitem__
Vector_getitem(m, v, index) ==
    IF index.slice
    THEN getSlice(m[v.data], index)
    ELSE implGetItem(m[v.data], index)

\* a mutant of Vector_setitem: the slice branch drops the start of the slice
Vector_setitem_DropStart(sp, m, v, index, value) ==
    IF index.slice
    THEN [m EXCEPT ![v.data] =
             setSlice(@, Slice(0, index.stop - index.start),
                      ToKindSeq(sp.dtype, value))]
    ELSE [m EXCEPT ![v.data] = implSetItem(@, index, value)]

\* Vector.__setitem__: the memory after self[index] = value
Vector_setitem(sp, m, v, index, value) ==
    IF index.slice
    THEN [m EXCEPT ![v.data] = setSlice(@, index, ToKindSeq(sp.dtype, value))]
    ELSE [m EXCEPT ![v.data] = implSetItem(@, index, value)]

\* a mutant of CudaEN_lincomb: the two summands are handed over swapped
CudaEN_lincomb_Swapped(m, z, a, x, b, y) ==
    [m EXCEPT ![z.data] = linComb(m[z.data], a, m[y.data], b, m[x.data])]

\* a mutant of CudaEN_lincomb: the result is stored in x as well
CudaEN_lincomb_AlsoX(m, z, a, x, b, y) ==
    LET r == linComb(m[z.data], a, m[x.data], b, m[y.data])
    IN  [k \in DOMAIN m |->
            IF k = z.data THEN r
            ELSE IF k = x.data THEN [m[k] EXCEPT !.vals = r.vals]
            ELSE m[k]]

\* CudaEN._lincomb: the memory after lincomb(z, a, x, b, y)
CudaEN_lincomb(m, z, a, x, b, y) ==
    [m EXCEPT ![z.data] = linComb(m[z.data], a, m[x.data], b, m[y.data])]

\* a mutant of CudaRN_multiply: the product is written into x
CudaRN_multiply_IntoX(m, x, y) ==
    [m EXCEPT ![x.data] = multiply(m[x.data], m[y.data])]

\* CudaRN._multiply: the memory after multiply(x, y)
CudaRN_multiply(m, x, y) ==
    [m EXCEPT ![y.data] = multiply(m[y.data], m[x.data])]

\* CudaRN._inner
CudaRN_inner(m, x, y) == inner(m[x.data], m[y.data])

\* CudaRN._norm
CudaRN_norm(m, x) == norm(m[x.data])

(***************************************************************************)
(* The vector machine: one space, the vectors created from it (in the      *)
(* order of their creation), the device memory they refer to, and the      *)
(* host arrays handed to element(data).  `last` records the operation      *)
(* that led to the current state together with the operands' values        *)
(* before it.                                                              *)
(***************************************************************************)
VecIds == 1..Len(vecs)

\* the vectors whose buffer has the size of the space: what the device
\* routines do with buffers of other sizes is not in the source, and the
\* operations of the model take these vectors only
Operable == {v \in VecIds : Len(mem[vecs[v].data].vals) = space.n}

CanCreate == nops < MaxOps /\ Len(vecs) < MaxVecs
CanOperate == nops < MaxOps /\ Operable # {}

\* the components of the memory m stay within the magnitudes of the model
InBounds(m) ==
    \A k \in DOMAIN m : \A i \in DOMAIN m[k].vals :
        m[k].vals[i] <= MaxAbs /\ m[k].vals[i] >= -MaxAbs

\* the state after Vector(space, data) for a fresh device buffer
NewVector(b) ==
    /\ mem' = Append(mem, b)
    /\ vecs' = Append(vecs, [space |-> space, data |-> Len(mem) + 1])

\* a mutant of element_branch: a data_ptr given together with data wins
element_branch_PtrWins(hasData, hasPtr) ==
    IF ~hasData /\ ~hasPtr THEN "new"
    ELSE IF ~hasData THEN "fromPointer"
    ELSE IF ~hasPtr THEN "assign"
    ELSE "fromPointer"

\* the branch CudaEN.element takes for the arguments that are given
element_branch(hasData, hasPtr) ==
    IF ~hasData /\ ~hasPtr THEN "new"
    ELSE IF ~hasData THEN "fromPointer"
    ELSE IF ~hasPtr THEN "assign"
    ELSE "TypeError"

\* element(): neither data nor data_ptr
ElementNone ==
    /\ CanCreate
    /\ element_branch(FALSE, FALSE) = "new"
    /\ \E b \in ImplNew(space.dtype, space.n) : NewVector(b)
    /\ last' = [op |-> "element", v |-> Len(vecs) + 1]
    /\ nops' = nops + 1
    /\ UNCHANGED <<space, host>>
    /\ UNCHANGED <<discVars, gridVars, spaceVars, mapVars>>

\* element(data_ptr=p): a view of the memory another vector exports
ElementPtr ==
    /\ CanCreate
    /\ Operable # {}
    /\ element_branch(FALSE, TRUE) = "fromPointer"
    /\ \E w \in Operable :
          /\ vecs' = Append(vecs, [space |-> space, data |-> vecs[w].data])
          /\ last' = [op |-> "element_ptr", v |-> Len(vecs) + 1, of |-> w]
    /\ nops' = nops + 1
    /\ UNCHANGED <<space, mem, host>>
    /\ UNCHANGED <<discVars, gridVars, spaceVars, mapVars>>

\* element(data): element() followed by elem[:] = data
ElementData ==
    /\ CanCreate
    /\ element_branch(TRUE, FALSE) = "assign"
    /\ \E d \in SeqsOfLen(HostVals, space.n), b \in ImplNew(space.dtype, space.n) :
          LET elem == [space |-> space, data |-> Len(mem) + 1]
              m1 == Append(mem, b)
          IN  /\ mem' = Vector_setitem(space, m1, elem, FullSlice(space.n), d)
              /\ vecs' = Append(vecs, elem)
              /\ host' = Append(host, d)
              /\ last' = [op |-> "element_data", v |-> Len(vecs) + 1, data |-> d]
    /\ nops' = nops + 1
    /\ UNCHANGED space
    /\ UNCHANGED <<discVars, gridVars, spaceVars, mapVars>>

\* element(data, data_ptr): both are given
ElementBoth ==
    /\ CanOperate
    /\ \E d \in SeqsOfLen(HostVals, space.n), w \in Operable :
          LET br == element_branch(TRUE, TRUE)
          IN  IF br = "TypeError"
              THEN /\ vecs' = vecs
                   /\ last' = [op |-> "element_both", error |-> "TypeError",
                               nvecs |-> Len(vecs)]
              ELSE /\ vecs' = Append(vecs, [space |-> space,
                                            data |-> vecs[w].data])
                   /\ last' = [op |-> "element_both", error |-> "none",
                               nvecs |-> Len(vecs)]
    /\ nops' = nops + 1
    /\ UNCHANGED <<space, mem, host>>
    /\ UNCHANGED <<discVars, gridVars, spaceVars, mapVars>>

\* the data objects handed to the Vector constructor: device buffers of
\* either kind, of the size of the space or longer by one
DataObjects ==
    UNION {ImplNew(kind, l) : kind \in dtypes, l \in {space.n, space.n + 1}}

\* CudaEN.Vector.__init__: a data object that is no instance of the vector
\* implementation of the space makes __init__ return a TypeError object,
\* and Python raises a TypeError for an __init__ that returns a value
Vector_init(sp, data) ==
    IF data.kind # sp.dtype THEN "TypeError" ELSE "none"

\* Vector(space, data), called directly
VectorDirect ==
    /\ CanCreate
    /\ \E data \in DataObjects :
          LET error == Vector_init(space, data)
          IN  /\ IF error = "none"
                 THEN NewVector(data)
                 ELSE UNCHANGED <<mem, vecs>>
              /\ last' = [op |-> "vector", error |-> error,
                          kind |-> data.kind, nvecs |-> Len(vecs)]
    /\ nops' = nops + 1
    /\ UNCHANGED <<space, host>>
    /\ UNCHANGED <<discVars, gridVars, spaceVars, mapVars>>

\* zero()
Zero ==
    /\ CanCreate
    /\ NewVector(CudaEN_zero(space))
    /\ last' = [op |-> "zero", v |-> Len(vecs) + 1]
    /\ nops' = nops + 1
    /\ UNCHANGED <<space, host>>
    /\ UNCHANGED <<discVars, gridVars, spaceVars, mapVars>>

\* v[index] = value, for an integer index and a scalar, or a slice and a
\* host array of the length of the slice
SetItem ==
    /\ CanOperate
    /\ \E v \in Operable, index \in Indices(space.n) :
       \E value \in IF index.slice
                    THEN SeqsOfLen(HostVals, IndexLen(index))
                    ELSE HostVals :
          /\ mem' = Vector_setitem(space, mem, vecs[v], index, value)
          /\ last' = [op |-> "setitem", v |-> v, index |-> index,
                      value |-> value]
    /\ nops' = nops + 1
    /\ UNCHANGED <<space, vecs, host>>
    /\ UNCHANGED <<discVars, gridVars, spaceVars, mapVars>>

\* space.lincomb(z, a, x, b, y)
Lincomb ==
    /\ CanOperate
    /\ \E z \in Operable, x \in Operable, y \in Operable, a \in Scalars, b \in Scalars :
          /\ mem' = CudaEN_lincomb(mem, vecs[z], a, vecs[x], b, vecs[y])
          /\ InBounds(mem')
          /\ last' = [op |-> "lincomb", z |-> z, a |-> a, x |-> x, b |-> b,
                      y |-> y,
                      x_old |-> Vector_getitem(mem, vecs[x], FullSlice(space.n)),
                      y_old |-> Vector_getitem(mem, vecs[y], FullSlice(space.n))]
    /\ nops' = nops + 1
    /\ UNCHANGED <<space, vecs, host>>
    /\ UNCHANGED <<discVars, gridVars, spaceVars, mapVars>>

\* space.multiply(x, y), which CudaRN alone defines
MultiplyOp ==
    /\ CanOperate
    /\ space.cls = "CudaRN"
    /\ \E x \in Operable, y \in Operable :
          /\ mem' = CudaRN_multiply(mem, vecs[x], vecs[y])
          /\ InBounds(mem')
          /\ last' = [op |-> "multiply", x |-> x, y |-> y,
                      x_old |-> Vector_getitem(mem, vecs[x], FullSlice(space.n)),
                      y_old |-> Vector_getitem(mem, vecs[y], FullSlice(space.n))]
    /\ nops' = nops + 1
    /\ UNCHANGED <<space, vecs, host>>
    /\ UNCHANGED <<discVars, gridVars, spaceVars, mapVars>>

VecInit ==
    /\ space \in CudaSpaces
    /\ mem = <<>>
    /\ vecs = <<>>
    /\ host = <<>>
    /\ last = [op |-> "init"]
    /\ nops = 0


Init ==
    /\ VecInit
    /\ dspace = "unused" /\ dx = "unused" /\ dres = "unused"
    /\ grid = "unused" /\ order = "unused" /\ dvec = "unused" /\ gres = "unused"
    /\ fun = "unused"
    /\ spcs = "unused" /\ sres = "unused" /\ maps = "unused" /\ mres = "unused"

Next ==
    \/ ElementNone
    \/ ElementPtr
    \/ ElementData
    \/ ElementBoth
    \/ VectorDirect
    \/ Zero
    \/ SetItem
    \/ Lincomb
    \/ MultiplyOp

Spec == Init /\ [][Next]_vars

(***************************************************************************)
(* Exact real arithmetic for the scaled inner product and norm: a rational *)
(* is a record [num, den] with den > 0, and a non-negative real r that     *)
(* math.sqrt produces is the record [sq |-> r^2].                          *)
(***************************************************************************)
Rat(k) == [num |-> k, den |-> 1]
RatMul(p, q) == [num |-> p.num * q.num, den |-> p.den * q.den]
RatEq(p, q) == p.num * q.den = q.num * p.den

\* math.sqrt(r)
sqrt(r) == [sq |-> r]
\* the product of two non-negative reals given by their squares
SurdMul(s, t) == [sq |-> RatMul(s.sq, t.sq)]
\* s ** 2
Square(s) == s.sq
\* a device norm as a real of this arithmetic
NormReal(nrm) == [sq |-> Rat(nrm.sq)]

(***************************************************************************)
(* uniform_discretization and pixel_discretization: a CudaRN space with    *)
(* the inner product and the norm scaled by the cell size.                 *)
(***************************************************************************)
\* UniformDiscretization.__init__: scale = domain.length / (dim - 1)
UniformDiscretization(length, rn) ==
    [kind |-> "uniform", rn |-> rn,
     scale |-> [num |-> length, den |-> rn.n - 1]]

\* PixelDiscretization.__init__: scale = dx * dy
PixelDiscretization(width, height, rn, cols, rows) ==
    [kind |-> "pixel", rn |-> rn, cols |-> cols, rows |-> rows,
     scale |-> RatMul([num |-> width, den |-> cols - 1],
                      [num |-> height, den |-> rows - 1])]

\* the discretizations that can be constructed, and the bare CudaRN spaces
DiscSpaces ==
    LET RNs == {[cls |-> "CudaRN", n |-> n, dtype |-> "float32"] :
                    n \in 1..MaxDiscN}
    IN  {[kind |-> "rn", rn |-> rn] : rn \in RNs}
        \cup {UniformDiscretization(l, rn) :
                 l \in 1..MaxLength, rn \in {r \in RNs : r.n - 1 # 0}}
        \cup UNION {{PixelDiscretization(w, h, rn, c, r) :
                        w \in 1..MaxLength, h \in 1..MaxLength,
                        rn \in {q \in RNs : q.n = c * r}} :
                    c \in 2..MaxDiscN, r \in 2..MaxDiscN}

\* a mutant of UniformDiscretization_norm: scaled by scale, not sqrt(scale)
UniformDiscretization_norm_NoSqrt(d, m, x) ==
    [sq |-> RatMul(NormReal(CudaRN_norm(m, x)).sq, RatMul(d.scale, d.scale))]

\* UniformDiscretization._inner
UniformDiscretization_inner(d, m, x, y) ==
    RatMul(Rat(CudaRN_inner(m, x, y)), d.scale)

\* UniformDiscretization._norm
UniformDiscretization_norm(d, m, x) ==
    SurdMul(NormReal(CudaRN_norm(m, x)), sqrt(d.scale))

\* PixelDiscretization._inner
PixelDiscretization_inner(d, m, x, y) ==
    RatMul(Rat(CudaRN_inner(m, x, y)), d.scale)

\* PixelDiscretization._norm
PixelDiscretization_norm(d, m, x) ==
    SurdMul(NormReal(CudaRN_norm(m, x)), sqrt(d.scale))

\* space.inner(x, y) of the space d
Disc_inner(d, m, x, y) ==
    CASE d.kind = "rn" -> Rat(CudaRN_inner(m, x, y))
      [] d.kind = "uniform" -> UniformDiscretization_inner(d, m, x, y)
      [] d.kind = "pixel" -> PixelDiscretization_inner(d, m, x, y)

\* space.norm(x) of the space d
Disc_norm(d, m, x) ==
    CASE d.kind = "rn" -> NormReal(CudaRN_norm(m, x))
      [] d.kind = "uniform" -> UniformDiscretization_norm(d, m, x)
      [] d.kind = "pixel" -> PixelDiscretization_norm(d, m, x)

\* a space, one vector x of it, and nothing computed yet (dres holds each
\* result as a sequence of length 1 once it is computed)
DiscInit ==
    /\ dspace \in DiscSpaces
    /\ dx \in SeqsOfLen(DiscVals, dspace.rn.n)
    /\ dres = [inner |-> <<>>, norm |-> <<>>]
    /\ space = dspace.rn
    /\ mem = <<[kind |-> "float32", vals |-> dx]>>
    /\ vecs = <<[space |-> space, data |-> 1]>>
    /\ host = <<dx>>
    /\ last = [op |-> "element_data", v |-> 1, data |-> dx]
    /\ nops = 0
    /\ grid = "unused" /\ order = "unused" /\ dvec = "unused" /\ gres = "unused"
    /\ fun = "unused"
    /\ spcs = "unused" /\ sres = "unused" /\ maps = "unused" /\ mres = "unused"

\* space.inner(x, x)
InnerOp ==
    /\ dres.inner = <<>>
    /\ dres' = [dres EXCEPT !.inner = <<Disc_inner(dspace, mem, vecs[1], vecs[1])>>]
    /\ UNCHANGED <<dspace, dx, vecVars, gridVars, spaceVars, mapVars>>

\* space.norm(x)
NormOp ==
    /\ dres.norm = <<>>
    /\ dres' = [dres EXCEPT !.norm = <<Disc_norm(dspace, mem, vecs[1])>>]
    /\ UNCHANGED <<dspace, dx, vecVars, gridVars, spaceVars, mapVars>>

DiscNext ==
    \/ InnerOp
    \/ NormOp

DiscSpec == DiscInit /\ [][DiscNext]_vars

DimInputs ==
    {[int |-> TRUE, v |-> k] : k \in (0 - 1)..MaxN}
    \cup {[int |-> FALSE, v |-> k] : k \in 1..MaxN}

\* the values handed as dtype
KindInputs == {"float32", "uint8", "float64", "int32"}

\* a mutant of CudaEN_init: n < 0 instead of n < 1
CudaEN_init_ZeroAllowed(n, dtype) ==
    IF ~n.int \/ n.v < 0
    THEN [error |-> "TypeError"]
    ELSE IF dtype \notin dtypes
         THEN [error |-> "TypeError"]
         ELSE [error |-> "none",
               space |-> [cls |-> "CudaEN", n |-> n.v, dtype |-> dtype]]

\* CudaEN.__init__(n, dtype)
CudaEN_init(n, dtype) ==
    IF ~n.int \/ n.v < 1
    THEN [error |-> "TypeError"]
    ELSE IF dtype \notin dtypes
         THEN [error |-> "TypeError"]
         ELSE [error |-> "none",
               space |-> [cls |-> "CudaEN", n |-> n.v, dtype |-> dtype]]

\* CudaRN.__init__(n): super().__init__(n, np.float32)
CudaRN_init(n) ==
    LET r == CudaEN_init(n, "float32")
    IN  IF r.error = "none"
        THEN [r EXCEPT !.space = [r.space EXCEPT !.cls = "CudaRN"]]
        ELSE r

\* isinstance(sp, cls): CudaRN is a subclass of CudaEN
IsInstance(sp, cls) == sp.cls = cls \/ (sp.cls = "CudaRN" /\ cls = "CudaEN")

\* CudaEN.equals
CudaEN_equals(self, other) ==
    IsInstance(other, "CudaEN") /\ self.n = other.n /\ self.dtype = other.dtype

\* CudaRN.equals
CudaRN_equals(self, other) ==
    IsInstance(other, "CudaRN") /\ self.n = other.n

\* self.equals(other), by the class of self
equals(self, other) ==
    IF self.cls = "CudaRN"
    THEN CudaRN_equals(self, other)
    ELSE CudaEN_equals(self, other)

SpaceInit ==
    /\ spcs = <<>>
    /\ sres = [op |-> "init"]
    /\ space = "unused" /\ mem = "unused" /\ vecs = "unused"
    /\ host = "unused" /\ last = "unused" /\ nops = "unused"
    /\ dspace = "unused" /\ dx = "unused" /\ dres = "unused"
    /\ grid = "unused" /\ order = "unused" /\ dvec = "unused" /\ gres = "unused"
    /\ fun = "unused"
    /\ maps = "unused" /\ mres = "unused"

\* what a constructor call leaves: the space, if there is one, and the call
Constructed(r, cls, n, dtype) ==
    /\ spcs' = IF r.error = "none" THEN Append(spcs, r.space) ELSE spcs
    /\ sres' = [op |-> "construct", cls |-> cls, n |-> n, dtype |-> dtype,
                error |-> r.error, nspaces |-> Len(spcs)]

\* CudaEN(n, dtype)
ConstructEN ==
    /\ Len(spcs) < MaxSpaces
    /\ \E n \in DimInputs, dtype \in KindInputs :
          Constructed(CudaEN_init(n, dtype), "CudaEN", n, dtype)
    /\ UNCHANGED <<vecVars, discVars, gridVars, mapVars>>

\* CudaRN(n)
ConstructRN ==
    /\ Len(spcs) < MaxSpaces
    /\ \E n \in DimInputs :
          Constructed(CudaRN_init(n), "CudaRN", n, "float32")
    /\ UNCHANGED <<vecVars, discVars, gridVars, mapVars>>

\* a.equals(b) for two of the spaces
EqualsOp ==
    /\ \E a \in 1..Len(spcs), b \in 1..Len(spcs) :
          sres' = [op |-> "equals", a |-> a, b |-> b,
                   result |-> equals(spcs[a], spcs[b])]
    /\ UNCHANGED <<spcs, vecVars, discVars, gridVars, mapVars>>

SpaceNext ==
    \/ ConstructEN
    \/ ConstructRN
    \/ EqualsOp

SpaceSpec == SpaceInit /\ [][SpaceNext]_vars

(***************************************************************************)
(* Python strings are sequences of characters, so that str.lower() and     *)
(* str.upper() act on them letter by letter.                               *)
(***************************************************************************)
LowerLetters == <<"c", "e", "f", "i", "j", "k", "n", "o", "p", "r", "s", "t", "x">>
UpperLetters == <<"C", "E", "F", "I", "J", "K", "N", "O", "P", "R", "S", "T", "X">>

ToLower(ch) ==
    IF \E k \in DOMAIN UpperLetters : UpperLetters[k] = ch
    THEN LowerLetters[CHOOSE k \in DOMAIN UpperLetters : UpperLetters[k] = ch]
    ELSE ch

ToUpper(ch) ==
    IF \E k \in DOMAIN LowerLetters : LowerLetters[k] = ch
    THEN UpperLetters[CHOOSE k \in DOMAIN LowerLetters : LowerLetters[k] = ch]
    ELSE ch

\* str.lower(), str.upper()
lower(str) == [k \in DOMAIN str |-> ToLower(str[k])]
upper(str) == [k \in DOMAIN str |-> ToUpper(str[k])]

\* spellings of a word: as it is, upper case, capitalized, every second
\* letter in upper case
Spellings(word) ==
    {word, upper(word),
     [k \in DOMAIN word |-> IF k = 1 THEN ToUpper(word[k]) ELSE word[k]],
     [k \in DOMAIN word |-> IF k % 2 = 0 THEN ToUpper(word[k]) ELSE word[k]]}

restriction == <<"r", "e", "s", "t", "r", "i", "c", "t", "i", "o", "n">>
extension == <<"e", "x", "t", "e", "n", "s", "i", "o", "n">>

\* the values handed as map_type
MapTypeInputs ==
    Spellings(restriction) \cup Spellings(extension)
    \cup {<<"p", "r", "o", "j", "e", "c", "t", "i", "o", "n">>, <<"r", "e", "s", "t", "r", "i", "c", "t">>, <<>>}

\* the values handed as order
OrderInputs == {<<"C">>, <<"c">>, <<"F">>, <<"f">>, <<"K">>, <<"C", "F">>, <<>>}

(***************************************************************************)
(* FunctionSetMapping and its subclasses.  The collaborators are records   *)
(* of what the constructor reads of them: the class, and the field, the    *)
(* size, the number of points, and whether the grid lies in the domain of  *)
(* the function set.                                                       *)
(***************************************************************************)
FunctionSets ==
    {[cls |-> "FunctionSpace", field |-> f] : f \in {"R", "C"}}
    \cup {[cls |-> "FunctionSet", field |-> "none"],
          [cls |-> "other", field |-> "none"]}

TensorGrids ==
    {[cls |-> "TensorGrid", ntotal |-> n, inside |-> b] :
        n \in {2, 3}, b \in BOOLEAN}
    \cup {[cls |-> "other", ntotal |-> 0, inside |-> FALSE]}

DataSpaces ==
    {[cls |-> "FnBase", size |-> n, field |-> f] : n \in {2, 3}, f \in {"R", "C"}}
    \cup {[cls |-> "NtuplesBase", size |-> n, field |-> "none"] : n \in {2, 3}}
    \cup {[cls |-> "other", size |-> 0, field |-> "none"]}

\* isinstance(fset, FunctionSet), FunctionSpace being a subclass
IsFunctionSet(fset) == fset.cls \in {"FunctionSet", "FunctionSpace"}
IsFunctionSpace(fset) == fset.cls = "FunctionSpace"
IsTensorGrid(g) == g.cls = "TensorGrid"
\* isinstance(dspace, NtuplesBase), FnBase being a subclass
IsNtuplesBase(ds) == ds.cls \in {"NtuplesBase", "FnBase"}
IsFnBase(ds) == ds.cls = "FnBase"

\* fset.domain.contains_set(grid)
contains_set(fset, g) == g.inside

Raise(exception, msg) == [error |-> exception, msg |-> msg]

\* a mutant of NormOrder: the order is taken as it is given
NormOrder_AsGiven(ord) == ord

\* str(order).upper()
NormOrder(ord) == upper(ord)

\* a mutant of FunctionSetMapping_init: the size of the data space is
\* checked before the containment of the grid
FunctionSetMapping_init_SizeFirst(cls, map_type, fset, g, ds, ord, linear) ==
    LET map_type_ == lower(map_type)
        order_ == NormOrder(ord)
        dom == IF map_type_ = restriction THEN fset ELSE ds
        ran == IF map_type_ = restriction THEN ds ELSE fset
    IN  IF map_type_ \notin {restriction, extension}
        THEN Raise("ValueError", "map_type")
        ELSE IF ~IsFunctionSet(fset)
        THEN Raise("TypeError", "fset")
        ELSE IF ~IsTensorGrid(g)
        THEN Raise("TypeError", "grid")
        ELSE IF ~IsNtuplesBase(ds)
        THEN Raise("TypeError", "dspace")
        ELSE IF ds.size # g.ntotal
        THEN Raise("ValueError", "size")
        ELSE IF ~contains_set(fset, g)
        THEN Raise("ValueError", "contains")
        ELSE IF order_ \notin {<<"C">>, <<"F">>}
        THEN Raise("ValueError", "order")
        ELSE IF linear /\ ~IsFunctionSpace(fset)
        THEN Raise("TypeError", "linear_fset")
        ELSE IF linear /\ ~IsFnBase(ds)
        THEN Raise("TypeError", "linear_dspace")
        ELSE IF linear /\ fset.field # ds.field
        THEN Raise("ValueError", "field")
        ELSE [error |-> "none", msg |-> "none",
              obj |-> [cls |-> cls, domain |-> dom, range |-> ran,
                       grid |-> g, order |-> order_, linear |-> linear]]

\* FunctionSetMapping.__init__ for an object of the class cls
FunctionSetMapping_init(cls, map_type, fset, g, ds, ord, linear) ==
    LET map_type_ == lower(map_type)
        order_ == NormOrder(ord)
        dom == IF map_type_ = restriction THEN fset ELSE ds
        ran == IF map_type_ = restriction THEN ds ELSE fset
    IN  IF map_type_ \notin {restriction, extension}
        THEN Raise("ValueError", "map_type")
        ELSE IF ~IsFunctionSet(fset)
        THEN Raise("TypeError", "fset")
        ELSE IF ~IsTensorGrid(g)
        THEN Raise("TypeError", "grid")
        ELSE IF ~IsNtuplesBase(ds)
        THEN Raise("TypeError", "dspace")
        ELSE IF ~contains_set(fset, g)
        THEN Raise("ValueError", "contains")
        ELSE IF ds.size # g.ntotal
        THEN Raise("ValueError", "size")
        ELSE IF order_ \notin {<<"C">>, <<"F">>}
        THEN Raise("ValueError", "order")
        ELSE IF linear /\ ~IsFunctionSpace(fset)
        THEN Raise("TypeError", "linear_fset")
        ELSE IF linear /\ ~IsFnBase(ds)
        THEN Raise("TypeError", "linear_dspace")
        ELSE IF linear /\ fset.field # ds.field
        THEN Raise("ValueError", "field")
        ELSE [error |-> "none", msg |-> "none",
              obj |-> [cls |-> cls, domain |-> dom, range |-> ran,
                       grid |-> g, order |-> order_, linear |-> linear]]

\* a mutant of InferLinear: every mapping is linear
InferLinear_Always(ip_fset) == TRUE

\* linear, as GridCollocation.__init__ and NearestInterpolation.__init__
\* set it
InferLinear(ip_fset) == IsFunctionSpace(ip_fset)

\* GridCollocation.__init__
GridCollocation_init(ip_fset, g, ds, ord) ==
    FunctionSetMapping_init("GridCollocation", restriction, ip_fset, g, ds,
                            ord, InferLinear(ip_fset))

\* NearestInterpolation.__init__
NearestInterpolation_init(ip_fset, g, ds, ord) ==
    FunctionSetMapping_init("NearestInterpolation", extension, ip_fset, g, ds,
                            ord, InferLinear(ip_fset))

\* a mutant of FunctionSetMapping_eq: the order is not compared
FunctionSetMapping_eq_NoOrder(self, other) ==
    /\ self.cls = other.cls
    /\ self.domain = other.domain
    /\ self.range = other.range
    /\ self.grid = other.grid

\* FunctionSetMapping.__eq__: each is an instance of the other's type, so
\* the two are of one class
FunctionSetMapping_eq(self, other) ==
    /\ self.cls = other.cls
    /\ self.domain = other.domain
    /\ self.range = other.range
    /\ self.grid = other.grid
    /\ self.order = other.order

\* the outcomes of all constructor calls of the model
Constructions ==
    {FunctionSetMapping_init("FunctionSetMapping", t, fs, g, ds, o, l) :
        t \in MapTypeInputs, fs \in FunctionSets, g \in TensorGrids,
        ds \in DataSpaces, o \in OrderInputs, l \in BOOLEAN}
    \cup {GridCollocation_init(fs, g, ds, o) :
        fs \in FunctionSets, g \in TensorGrids, ds \in DataSpaces,
        o \in OrderInputs}
    \cup {NearestInterpolation_init(fs, g, ds, o) :
        fs \in FunctionSets, g \in TensorGrids, ds \in DataSpaces,
        o \in OrderInputs}

\* the mappings that can be constructed
Mappings == {r.obj : r \in {c \in Constructions : c.error = "none"}}

(***************************************************************************)
(* The mapping machine: a constructor is called, and the mapping it        *)
(* returns, if it returns one, is compared with the mappings that can be   *)
(* constructed.  maps holds the mapping, mres the last call.               *)
(***************************************************************************)
MapInit ==
    /\ maps = <<>>
    /\ mres = [op |-> "init"]
    /\ space = "unused" /\ mem = "unused" /\ vecs = "unused"
    /\ host = "unused" /\ last = "unused" /\ nops = "unused"
    /\ dspace = "unused" /\ dx = "unused" /\ dres = "unused"
    /\ grid = "unused" /\ order = "unused" /\ dvec = "unused" /\ gres = "unused"
    /\ fun = "unused"
    /\ spcs = "unused" /\ sres = "unused"

\* what a constructor call leaves: the mapping, if there is one, and the call
MapConstructed(r, cls, t, fs, g, ds, o, l) ==
    /\ maps' = IF r.error = "none" THEN <<r.obj>> ELSE <<>>
    /\ mres' = [op |-> "construct", cls |-> cls, map_type |-> t, fset |-> fs,
                grid |-> g, dspace |-> ds, order |-> o, linear |-> l,
                error |-> r.error, msg |-> r.msg]

\* FunctionSetMapping(map_type, fset, grid, dspace, order, linear)
ConstructMapping ==
    /\ mres.op = "init"
    /\ \E t \in MapTypeInputs, fs \in FunctionSets, g \in TensorGrids,
          ds \in DataSpaces, o \in OrderInputs, l \in BOOLEAN :
          MapConstructed(
              FunctionSetMapping_init("FunctionSetMapping", t, fs, g, ds, o, l),
              "FunctionSetMapping", t, fs, g, ds, o, l)
    /\ UNCHANGED <<vecVars, discVars, gridVars, spaceVars>>

\* GridCollocation(ip_fset, grid, dspace, order)
ConstructCollocation ==
    /\ mres.op = "init"
    /\ \E fs \in FunctionSets, g \in TensorGrids, ds \in DataSpaces,
          o \in OrderInputs :
          MapConstructed(GridCollocation_init(fs, g, ds, o),
              "GridCollocation", restriction, fs, g, ds, o, InferLinear(fs))
    /\ UNCHANGED <<vecVars, discVars, gridVars, spaceVars>>

\* NearestInterpolation(ip_fset, grid, dspace, order)
ConstructNearest ==
    /\ mres.op = "init"
    /\ \E fs \in FunctionSets, g \in TensorGrids, ds \in DataSpaces,
          o \in OrderInputs :
          MapConstructed(NearestInterpolation_init(fs, g, ds, o),
              "NearestInterpolation", extension, fs, g, ds, o, InferLinear(fs))
    /\ UNCHANGED <<vecVars, discVars, gridVars, spaceVars>>

(***************************************************************************)
(* LinearInterpolation.  Its constructor hands its arguments to            *)
(* FunctionSetMapping.__init__ through super(), and Python binds them to   *)
(* the parameters of that method before its body runs.                     *)
(***************************************************************************)
\* the parameters of FunctionSetMapping.__init__ after self
InitParams == <<"map_type", "fset", "grid", "dspace", "order", "linear">>

\* the parameters of FunctionSetMapping.__init__ that have no default
InitRequired == {"map_type", "fset", "grid", "dspace"}

ParamPos(name) == CHOOSE i \in 1..Len(InitParams) : InitParams[i] = name

\* the binding of a call method(*positional, **keywords) of the bound method
\* FunctionSetMapping.__init__: TypeError when there are too many
\* positional arguments, when a keyword names a parameter that a
\* positional argument has filled, or when a required parameter is left
BindInit(positional, keywords) ==
    IF Len(positional) > Len(InitParams)
    THEN Raise("TypeError", "too_many_positional")
    ELSE IF \E name \in DOMAIN keywords : ParamPos(name) <= Len(positional)
    THEN Raise("TypeError", "multiple_values")
    ELSE IF \E name \in InitRequired :
               ParamPos(name) > Len(positional) /\ name \notin DOMAIN keywords
    THEN Raise("TypeError", "missing_argument")
    ELSE [error |-> "none", msg |-> "none"]

\* the function sets handed to LinearInterpolation, with the class of
\* their domain
LinearFunctionSets ==
    {[cls |-> "FunctionSpace", field |-> f, domain |-> d] :
        f \in {"R", "C"}, d \in {"IntervalProd", "other"}}
    \cup {[cls |-> "FunctionSet", field |-> "none", domain |-> "IntervalProd"],
          [cls |-> "other", field |-> "none", domain |-> "none"]}

\* LinearInterpolation.__init__
LinearInterpolation_init(ip_fspace, g, ds, ord) ==
    IF ~IsFunctionSpace(ip_fspace)
    THEN Raise("TypeError", "ip_fspace")
    ELSE IF ip_fspace.domain # "IntervalProd"
    THEN Raise("TypeError", "domain")
    ELSE LET self == [cls |-> "LinearInterpolation"]
             bound == BindInit(<<self, extension, ip_fspace, g, ds, ord>>,
                               [linear |-> TRUE])
         IN  IF bound.error # "none" THEN bound
             ELSE FunctionSetMapping_init("LinearInterpolation", self,
                                          extension, ip_fspace, g, ds, ord)

\* LinearInterpolation._call: raise NotImplementedError
LinearInterpolation_call(self, x) == "NotImplementedError"

\* LinearInterpolation(ip_fspace, grid, dspace, order)
ConstructLinear ==
    /\ mres.op = "init"
    /\ \E fs \in LinearFunctionSets, g \in TensorGrids, ds \in DataSpaces,
          o \in OrderInputs :
          LET r == LinearInterpolation_init(fs, g, ds, o)
          IN  /\ maps' = IF r.error = "none" THEN <<r.obj>> ELSE <<>>
              /\ mres' = [op |-> "linear", fset |-> fs, grid |-> g,
                          dspace |-> ds, order |-> o,
                          error |-> r.error, msg |-> r.msg]
    /\ UNCHANGED <<vecVars, discVars, gridVars, spaceVars>>

\* maps[1] == other and other == maps[1]
CompareOp ==
    /\ mres.op = "construct"
    /\ Len(maps) = 1
    /\ \E other \in Mappings :
          mres' = [op |-> "eq", other |-> other,
                   result |-> FunctionSetMapping_eq(maps[1], other),
                   reverse |-> FunctionSetMapping_eq(other, maps[1]),
                   self |-> FunctionSetMapping_eq(maps[1], maps[1])]
    /\ UNCHANGED <<maps, vecVars, discVars, gridVars, spaceVars>>

MapNext ==
    \/ ConstructMapping
    \/ ConstructCollocation
    \/ ConstructNearest
    \/ ConstructLinear
    \/ CompareOp

MapSpec == MapInit /\ [][MapNext]_vars

(***************************************************************************)
(* numpy arrays of several axes: a record of the shape and of the value at *)
(* every index tuple (0-based indices).  Order 'C' lets the last axis      *)
(* vary fastest in the flat sequence, order 'F' the first.                 *)
(***************************************************************************)
RECURSIVE Prod(_)
Prod(s) == IF Len(s) = 0 THEN 1 ELSE Head(s) * Prod(Tail(s))

Front(s) == SubSeq(s, 1, Len(s) - 1)

IndexTuples(shape) ==
    LET longest == CHOOSE l \in Range(shape) : \A l2 \in Range(shape) : l2 <= l
    IN  {t \in [1..Len(shape) -> 0..(longest - 1)] :
            \A d \in 1..Len(shape) : t[d] < shape[d]}

RECURSIVE FlatC(_, _)
FlatC(idx, shape) ==
    IF Len(idx) = 0 THEN 0
    ELSE FlatC(Front(idx), Front(shape)) * shape[Len(shape)] + idx[Len(idx)]

RECURSIVE FlatF(_, _)
FlatF(idx, shape) ==
    IF Len(idx) = 0 THEN 0
    ELSE idx[1] + shape[1] * FlatF(Tail(idx), Tail(shape))

\* a mutant of Flatten: the two orders are taken for each other
Flatten_Swapped(idx, shape, ord) ==
    IF ord = "C" THEN FlatF(idx, shape) ELSE FlatC(idx, shape)

\* position (0-based) of the index tuple in the flat sequence
Flatten(idx, shape, ord) ==
    IF ord = "C" THEN FlatC(idx, shape) ELSE FlatF(idx, shape)

Unflatten(k, shape, ord) ==
    CHOOSE idx \in IndexTuples(shape) : Flatten(idx, shape, ord) = k

\* a mutant of ravel: order 'F' whatever the order asked for
ravel_AlwaysF(a, ord) ==
    [k \in 1..Prod(a.shape) |-> a.at[Unflatten(k - 1, a.shape, "F")]]

\* a.ravel(order=ord)
ravel(a, ord) ==
    [k \in 1..Prod(a.shape) |-> a.at[Unflatten(k - 1, a.shape, ord)]]

\* flat.reshape(shape, order=ord)
reshape(flat, shape, ord) ==
    [shape |-> shape,
     at |-> [idx \in IndexTuples(shape) |-> flat[Flatten(idx, shape, ord) + 1]]]

\* seq[i] of Python, where a negative i counts from the end
PyAt(seq, i) == IF i < 0 THEN seq[Len(seq) + i + 1] ELSE seq[i + 1]

\* values[idx] for an index tuple, each index as in PyAt
PyAtTuple(a, idx) ==
    a.at[[d \in 1..Len(idx) |->
             IF idx[d] < 0 THEN a.shape[d] + idx[d] ELSE idx[d]]]

(***************************************************************************)
(* TensorGrid: a tuple of strictly ascending coordinate vectors.           *)
(***************************************************************************)
StrictlyAscending(v) == \A i \in 1..(Len(v) - 1) : v[i] < v[i + 1]

CoordVecs ==
    UNION {{v \in [1..l -> GridCoords] : StrictlyAscending(v)} :
              l \in 1..Cardinality(GridCoords)}

\* the grids of one and of two axes
Grids ==
    {<<v>> : v \in CoordVecs} \cup {<<v, w>> : v \in CoordVecs, w \in CoordVecs}

\* grid.shape
GridShape(g) == [d \in 1..Len(g) |-> Len(g[d])]

\* grid.ntotal
ntotal(g) == Prod(GridShape(g))

\* grid.points(order=ord): all grid points, in the order of the flat data
points(g, ord) ==
    [k \in 1..ntotal(g) |->
        [d \in 1..Len(g) |-> g[d][Unflatten(k - 1, GridShape(g), ord)[d] + 1]]]

\* grid.meshgrid(): per axis d an array that holds the coordinates of the
\* axis along d and has length 1 along every other axis
meshgrid(g) ==
    [d \in 1..Len(g) |->
        LET shape == [e \in 1..Len(g) |-> IF e = d THEN Len(g[d]) ELSE 1]
        IN  [shape |-> shape,
             at |-> [idx \in IndexTuples(shape) |-> g[d][idx[d] + 1]]]]

(***************************************************************************)
(* Functions of the function set: f(x) = k + c[1]*x[1] + ... + c[n]*x[n],  *)
(* tagged with the vectorization its Python callable supports.  Variable d *)
(* occurs in the callable iff c[d] # 0.                                    *)
(***************************************************************************)
Vectorizations == {"none", "array", "meshgrid"}

Funcs(nd) ==
    {[c |-> c, k |-> 0, vectorization |-> t] :
        c \in {co \in [1..nd -> FuncCoefs] : \E d \in 1..nd : co[d] # 0},
        t \in Vectorizations}

\* x(point)
FuncAtPoint(f, p) == f.k + SumSeq([d \in 1..Len(p) |-> f.c[d] * p[d]])

\* x(points) for an array of points, one per row
FuncOnArray(f, pts) == [i \in 1..Len(pts) |-> FuncAtPoint(f, pts[i])]

\* x(mg_tuple): numpy broadcasts the arrays of the variables that occur
FuncOnMeshgrid(f, mg) ==
    LET nd == Len(mg)
        shape == [e \in 1..nd |-> IF f.c[e] # 0 THEN mg[e].shape[e] ELSE 1]
    IN  [shape |-> shape,
         at |-> [idx \in IndexTuples(shape) |->
                    f.k + SumSeq([d \in 1..nd |->
                              IF f.c[d] # 0
                              THEN f.c[d] * mg[d].at[[e \in 1..nd |->
                                                IF e = d THEN idx[d] ELSE 0]]
                              ELSE 0])]]

(***************************************************************************)
(* GridCollocation.                                                        *)
(***************************************************************************)
Failure == [ok |-> FALSE, val |-> <<>>]

\* self.range.element(values): a vector of the data space, whose size is
\* grid.ntotal
RangeElement(g, values) ==
    IF Len(values) = ntotal(g) THEN [ok |-> TRUE, val |-> values] ELSE Failure

\* a mutant of GridCollocation_call: the meshgrid values are flattened in
\* order 'C' whatever the order of the mapping is
GridCollocation_call_RavelC(g, ord, x) ==
    IF x.vectorization = "meshgrid"
    THEN RangeElement(g, ravel(FuncOnMeshgrid(x, meshgrid(g)), "C"))
    ELSE RangeElement(g, FuncOnArray(x, points(g, ord)))

\* GridCollocation._call
GridCollocation_call(g, ord, x) ==
    IF x.vectorization = "meshgrid"
    THEN RangeElement(g, ravel(FuncOnMeshgrid(x, meshgrid(g)), ord))
    ELSE LET pts == points(g, ord)
         IN  IF x.vectorization = "array"
             THEN RangeElement(g, FuncOnArray(x, pts))
             ELSE RangeElement(g, [i \in 1..Len(pts) |-> FuncAtPoint(x, pts[i])])

(***************************************************************************)
(* _NearestPointwiseInterpolator and _NearestMeshgridInterpolator.  The    *)
(* query coordinates arrive per axis: xi[d] is the sequence of the         *)
(* coordinates on axis d.  A normalized distance is the quotient           *)
(* [num, den] that the division yields.                                    *)
(***************************************************************************)
\* np.searchsorted(grid, x): the number of grid coordinates below x
searchsorted(ax, x) == Cardinality({j \in 1..Len(ax) : ax[j] < x})

\* a mutant of FindIndex: the bracketing index is searchsorted(grid, x)
FindIndex_NoMinusOne(ax, x) ==
    LET i0 == searchsorted(ax, x)
        i1 == IF i0 < 0 THEN 0 ELSE i0
        i == IF i1 > Len(ax) - 2 THEN Len(ax) - 2 ELSE i1
    IN  [i |-> i,
         yi |-> [num |-> x - PyAt(ax, i), den |-> PyAt(ax, i + 1) - PyAt(ax, i)]]

\* the body of the loop of _find_indices for one coordinate x of one axis:
\* the index of the lower edge and the distance to it in unity units
FindIndex(ax, x) ==
    LET i0 == searchsorted(ax, x) - 1
        i1 == IF i0 < 0 THEN 0 ELSE i0
        i == IF i1 > Len(ax) - 2 THEN Len(ax) - 2 ELSE i1
    IN  [i |-> i,
         yi |-> [num |-> x - PyAt(ax, i), den |-> PyAt(ax, i + 1) - PyAt(ax, i)]]

\* _NearestPointwiseInterpolator._find_indices
find_indices(g, xi) ==
    [d \in 1..Len(g) |-> [a \in 1..Len(xi[d]) |-> FindIndex(g[d], xi[d][a])]]

\* yi <= .5 for the float yi = num / den; a division by zero yields inf,
\* -inf or nan, and nan <= .5 is false
LeqHalf(yi) ==
    IF yi.den = 0 THEN yi.num < 0
    ELSE IF yi.den > 0 THEN 2 * yi.num <= yi.den
    ELSE 2 * yi.num >= yi.den

\* a mutant of Pointwise_idx_res: the upper edge is taken only for a
\* distance within the interval
Pointwise_idx_res_Inside(found) ==
    [d \in 1..Len(found) |-> [a \in 1..Len(found[d]) |->
        IF ~LeqHalf(found[d][a].yi)
           /\ found[d][a].yi.num <= found[d][a].yi.den
        THEN found[d][a].i + 1 ELSE found[d][a].i]]

\* idx_res of _NearestPointwiseInterpolator._evaluate_nearest
Pointwise_idx_res(found) ==
    [d \in 1..Len(found) |-> [a \in 1..Len(found[d]) |->
        IF LeqHalf(found[d][a].yi) THEN found[d][a].i ELSE found[d][a].i + 1]]

\* a mutant of Meshgrid_idx_res: yi < .5
Meshgrid_idx_res_Less(found) ==
    [d \in 1..Len(found) |-> [a \in 1..Len(found[d]) |->
        IF LeqHalf(found[d][a].yi)
           /\ 2 * found[d][a].yi.num # found[d][a].yi.den
        THEN found[d][a].i ELSE found[d][a].i + 1]]

\* idx_res of _NearestMeshgridInterpolator._evaluate_nearest
Meshgrid_idx_res(found) ==
    [d \in 1..Len(found) |-> [a \in 1..Len(found[d]) |->
        IF LeqHalf(found[d][a].yi) THEN found[d][a].i ELSE found[d][a].i + 1]]

\* _NearestPointwiseInterpolator.__call__(xi) for an array xi of points, one
\* per row: the indices resolved and the values found
Pointwise_call(g, values, xi) ==
    LET xiT == [d \in 1..Len(g) |-> [p \in 1..Len(xi) |-> xi[p][d]]]
        idx == Pointwise_idx_res(find_indices(g, xiT))
    IN  [idx |-> idx,
         result |-> [p \in 1..Len(xi) |->
                        PyAtTuple(values, [d \in 1..Len(g) |-> idx[d][p]])]]

\* _NearestMeshgridInterpolator.__call__(xi) for a tuple xi of coordinate
\* vectors, one per axis: the result has one axis per vector
Meshgrid_call(g, values, xi) ==
    LET idx == Meshgrid_idx_res(find_indices(g, xi))
        shape == [d \in 1..Len(g) |-> Len(xi[d])]
    IN  [idx |-> idx,
         result |-> [shape |-> shape,
                     at |-> [t \in IndexTuples(shape) |->
                               PyAtTuple(values,
                                   [d \in 1..Len(g) |-> idx[d][t[d] + 1]])]]]

(***************************************************************************)
(* NearestInterpolation.                                                   *)
(***************************************************************************)
\* a mutant of InterpValues: the order of the mapping is not handed on
InterpValues_DefaultOrder(g, ord, data) == reshape(data, GridShape(g), "C")

\* x.data.reshape(self.grid.shape, order=self.order)
InterpValues(g, ord, data) == reshape(data, GridShape(g), ord)

\* nn_novec(arg): interp(np.atleast_2d(arg))[0]
nn_novec(g, ord, data, arg) ==
    LET r == Pointwise_call(g, InterpValues(g, ord, data), <<arg>>)
    IN  [idx |-> r.idx, result |-> r.result[1]]

\* nn_array(arg)
nn_array(g, ord, data, arg) ==
    Pointwise_call(g, InterpValues(g, ord, data), arg)

\* nn_mg(arg)
nn_mg(g, ord, data, arg) ==
    Meshgrid_call(g, InterpValues(g, ord, data), arg)

\* NearestInterpolation._call(x, vectorization) applied to arg
NearestInterpolation_call(g, ord, data, vectorization, arg) ==
    CASE vectorization = "none" -> nn_novec(g, ord, data, arg)
      [] vectorization = "array" -> nn_array(g, ord, data, arg)
      [] vectorization = "meshgrid" -> nn_mg(g, ord, data, arg)

(***************************************************************************)
(* The grid machine: a grid, a flattening order and a discrete vector (the *)
(* parts of a mapping and its argument), and in gres the call made with    *)
(* its result.  A call changes neither the mapping nor the vector, so a    *)
(* behaviour makes one call: a second call from the same mapping reaches   *)
(* no state that a first call does not.                                    *)
(***************************************************************************)
QueryPoints(nd) == [1..nd -> QueryCoords]

\* the point opposite to p
Mirror(p) == [d \in 1..Len(p) |-> 4 - p[d]]

\* the arguments handed to an interpolating function of the vectorization
Queries(nd, vectorization) ==
    CASE vectorization = "none" -> QueryPoints(nd)
      [] vectorization = "array" ->
            {<<p, Mirror(p)>> : p \in QueryPoints(nd)}
      [] vectorization = "meshgrid" ->
            [1..nd -> {<<a>> : a \in QueryCoords}
                      \cup {<<a, 4 - a>> :
                               a \in {b \in QueryCoords : b < 2}}]

\* the discrete vectors of a data space of size n
DVecs(n) ==
    {[k \in 1..n |-> 10 + k], [k \in 1..n |-> 10 + ((k * k) % 3)]}

\* the grid of the doctest of GridCollocation._call
DoctestGrid == <<<<1, 2>>, <<3, 4, 5>>>>

GridInit ==
    /\ grid \in Grids \cup {DoctestGrid}
    /\ order \in {"C", "F"}
    /\ dvec \in DVecs(ntotal(grid))
    /\ gres = [op |-> "init"]
    /\ fun = "unused"
    /\ space = "unused" /\ mem = "unused" /\ vecs = "unused"
    /\ host = "unused" /\ last = "unused" /\ nops = "unused"
    /\ dspace = "unused" /\ dx = "unused" /\ dres = "unused"
    /\ spcs = "unused" /\ sres = "unused" /\ maps = "unused" /\ mres = "unused"

\* the collocation operator applied to a function
Collocate ==
    /\ gres.op = "init"
    /\ \E f \in Funcs(Len(grid)) :
          gres' = [op |-> "collocation", f |-> f,
                   result |-> GridCollocation_call(grid, order, f)]
    /\ UNCHANGED <<grid, order, dvec, fun, vecVars, discVars, spaceVars, mapVars>>

\* the interpolation operator applied to dvec, and the function it returns
\* evaluated at arg
Interpolate ==
    /\ gres.op = "init"
    /\ \E v \in Vectorizations :
       \E arg \in Queries(Len(grid), v) :
          LET r == NearestInterpolation_call(grid, order, dvec, v, arg)
          IN  gres' = [op |-> "nearest", vectorization |-> v, arg |-> arg,
                       idx |-> r.idx, result |-> r.result]
    /\ UNCHANGED <<grid, order, dvec, fun, vecVars, discVars, spaceVars, mapVars>>

GridNext ==
    \/ Collocate
    \/ Interpolate

GridSpec == GridInit /\ [][GridNext]_vars

(***************************************************************************)
(* Claims about the vector machine.                                        *)
(***************************************************************************)
\* what reading v[:] returns in the current state
Read(v) == Vector_getitem(mem, vecs[v], FullSlice(space.n))

AllRepresentable(s) == \A i \in DOMAIN s : Representable(space.dtype, s[i])

\* the exact value a*x_old[i] + b*y_old[i] of the last lincomb
LincombExact(i) == last.a * last.x_old[i] + last.b * last.y_old[i]

\* C1 as stated: after lincomb(z, a, x, b, y) every component of z is
\* a*x_old[i] + b*y_old[i], in every space and also when z is x, y or both.
C1_AsStated ==
    last.op = "lincomb" =>
        \A i \in 1..space.n : Read(last.z)[i] = LincombExact(i)

\* C1 amended: after lincomb(z, a, x, b, y) every component i of z for which
\* a*x_old[i] + b*y_old[i] is a value of the space's scalar kind equals that
\* value, also when z is x, y or both; a component whose exact value is not
\* representable holds that value converted to the scalar kind.
C1_Lincomb ==
    last.op = "lincomb" =>
        \A i \in 1..space.n :
            /\ Representable(space.dtype, LincombExact(i))
                  => Read(last.z)[i] = LincombExact(i)
            /\ Read(last.z)[i] = ToKind(space.dtype, LincombExact(i))

\* C1 witness: a lincomb whose result vector is also its first summand, with
\* another second summand, different scalars and a non-zero result
C1_Witness ==
    /\ last.op = "lincomb"
    /\ last.z = last.x /\ last.y # last.z
    /\ vecs[last.y].data # vecs[last.z].data
    /\ last.a # last.b
    /\ \A i \in 1..space.n : Representable(space.dtype, LincombExact(i))
    /\ \E i \in 1..space.n : Read(last.z)[i] # 0 /\ last.x_old[i] # last.y_old[i]

\* C7: element(d) followed by reading [:] returns d, and reading an index or
\* range just written returns what was written, for values representable
\* in the space's scalar kind.
C7_RoundTrip ==
    /\ (last.op = "element_data" /\ AllRepresentable(last.data))
          => Read(last.v) = last.data
    /\ (last.op = "setitem" /\ last.index.slice /\ AllRepresentable(last.value))
          => Vector_getitem(mem, vecs[last.v], last.index) = last.value
    /\ (last.op = "setitem" /\ ~last.index.slice
           /\ Representable(space.dtype, last.value))
          => Vector_getitem(mem, vecs[last.v], last.index) = last.value

\* C7 witness: a proper sub-range, not starting at 0, of a uint8 vector was
\* written with representable values
C7_Witness ==
    /\ last.op = "setitem" /\ last.index.slice
    /\ last.index.start > 0
    /\ space.dtype = "uint8"
    /\ AllRepresentable(last.value)

\* C8: zero() returns a new vector of length n whose components all read 0,
\* for every dimension and scalar kind.
C8_Zero ==
    last.op = "zero" =>
        /\ Len(Read(last.v)) = space.n
        /\ \A i \in 1..space.n : Read(last.v)[i] = 0
        /\ \A w \in VecIds : w # last.v => vecs[w].data # vecs[last.v].data

\* C8 witness: zero() in a uint8 space of dimension above 1 that already
\* holds a vector
C8_Witness ==
    /\ last.op = "zero" /\ last.v > 1
    /\ space.dtype = "uint8" /\ space.n > 1

\* C9: after multiply(x, y) every component of y is x_old[i] * y_old[i]; the
\* product is written into y, and x keeps its value unless it shares y's
\* buffer.
C9_Multiply ==
    last.op = "multiply" =>
        /\ \A i \in 1..space.n :
              Read(last.y)[i] = last.x_old[i] * last.y_old[i]
        /\ vecs[last.x].data # vecs[last.y].data => Read(last.x) = last.x_old

\* C9 witness: a multiply of two vectors with buffers of their own, which
\* changed y
C9_Witness ==
    /\ last.op = "multiply"
    /\ vecs[last.x].data # vecs[last.y].data
    /\ Read(last.y) # last.y_old
    /\ Read(last.y) # last.x_old


\* the exceptions that stand for an InvalidArgument error
InvalidArgument == {"TypeError", "ValueError"}

\* C11: element(data, data_ptr) with both given fails with an
\* InvalidArgument error and adds no vector; with one of them or with
\* neither it returns a vector
C11_ElementArgs ==
    /\ last.op = "element_both" =>
          /\ last.error \in InvalidArgument
          /\ Len(vecs) = last.nvecs
    /\ last.op \in {"element", "element_ptr", "element_data"} =>
          /\ last.v = Len(vecs)
          /\ vecs[last.v].space = space

\* both arguments were given while a vector existed
C11_Witness ==
    /\ last.op = "element_both"
    /\ Len(vecs) = 1
    /\ nops = 2

\* C14 as the claim states it: every vector that exists, however it was
\* constructed and whatever operations followed, has a buffer of the length
\* n and of the scalar kind of its space, and a data object of another kind
\* is rejected with an error
C14_AsStated ==
    /\ \A v \in VecIds :
          /\ Len(mem[vecs[v].data].vals) = vecs[v].space.n
          /\ mem[vecs[v].data].kind = vecs[v].space.dtype
    /\ (last.op = "vector" /\ last.kind # space.dtype) =>
          /\ last.error \in InvalidArgument
          /\ Len(vecs) = last.nvecs

(***************************************************************************)
(* Claims about the space machine.                                         *)
(***************************************************************************)
\* C12: constructing a space with a dimension that is not positive or not
\* an integer, or with a scalar kind other than 32-bit float and 8-bit
\* unsigned integer, fails with an InvalidArgument error
C12_Construct ==
    (/\ sres.op = "construct"
     /\ \/ ~sres.n.int
        \/ sres.n.v < 1
        \/ sres.dtype \notin {"float32", "uint8"}) =>
        /\ sres.error \in InvalidArgument
        /\ Len(spcs) = sres.nspaces

\* the dimension 0 was handed to a constructor after a space was constructed
C12_Witness ==
    /\ sres.op = "construct"
    /\ sres.n = [int |-> TRUE, v |-> 0]
    /\ sres.dtype = "float32"
    /\ sres.error = "TypeError"
    /\ Len(spcs) = 1

\* C13 as the claim states it: two spaces are equal if and only if they
\* have the same dimension and the same scalar kind, for every pair of
\* spaces, CudaEN or CudaRN
C13_AsStated ==
    sres.op = "equals" =>
        (sres.result <=> (/\ spcs[sres.a].n = spcs[sres.b].n
                          /\ spcs[sres.a].dtype = spcs[sres.b].dtype))

(***************************************************************************)
(* Claims about the mapping machine.                                       *)
(***************************************************************************)
\* a and b are one letter, in whatever case
SameLetter(a, b) ==
    \/ a = b
    \/ \E k \in DOMAIN LowerLetters : {a, b} = {LowerLetters[k], UpperLetters[k]}

\* w is a letter-case variant of the word
CaseVariant(w, word) ==
    /\ Len(w) = Len(word)
    /\ \A k \in 1..Len(word) : SameLetter(w[k], word[k])

\* the preconditions of the construction recorded in mres, by their numbers
Violated(k) ==
    CASE k = 1 -> ~(\/ CaseVariant(mres.map_type, restriction)
                    \/ CaseVariant(mres.map_type, extension))
      [] k = 2 -> mres.fset.cls \notin {"FunctionSet", "FunctionSpace"}
      [] k = 3 -> mres.grid.cls # "TensorGrid"
      [] k = 4 -> mres.dspace.cls \notin {"NtuplesBase", "FnBase"}
      [] k = 5 -> ~mres.grid.inside
      [] k = 6 -> mres.dspace.size # mres.grid.ntotal
      [] k = 7 -> ~(\/ CaseVariant(mres.order, <<"C">>)
                    \/ CaseVariant(mres.order, <<"F">>))
      [] k = 8 -> /\ mres.linear
                  /\ \/ mres.fset.cls # "FunctionSpace"
                     \/ mres.dspace.cls # "FnBase"
                     \/ mres.fset.field # mres.dspace.field

\* the number of the precondition an error message belongs to
StepOf(msg) ==
    CASE msg = "map_type" -> 1
      [] msg = "fset" -> 2
      [] msg = "grid" -> 3
      [] msg = "dspace" -> 4
      [] msg = "contains" -> 5
      [] msg = "size" -> 6
      [] msg = "order" -> 7
      [] msg \in {"linear_fset", "linear_dspace", "field"} -> 8
      [] OTHER -> 0

\* C15: the constructor checks its preconditions in the order map kind,
\* function set, grid, data space, containment, size, order, linearity:
\* the error raised is the one of the lowest-numbered precondition that is
\* violated, and no mapping is returned; with none violated a mapping is
\* returned
C15_FirstViolation ==
    mres.op = "construct" =>
        IF \E k \in 1..8 : Violated(k)
        THEN /\ mres.error \in {"TypeError", "ValueError"}
             /\ Violated(StepOf(mres.msg))
             /\ \A k \in 1..8 : Violated(k) => StepOf(mres.msg) <= k
             /\ maps = <<>>
        ELSE /\ mres.error = "none"
             /\ Len(maps) = 1

\* the grid is outside the domain, the sizes differ and the order is not
\* understood: the error is the one of the containment
C15_Witness ==
    /\ mres.op = "construct"
    /\ Violated(5) /\ Violated(6) /\ Violated(7)
    /\ \A k \in 1..4 : ~Violated(k)
    /\ mres.msg = "contains"

\* the canonical spelling of a map kind or an order
Canonical(w) ==
    IF CaseVariant(w, restriction) THEN restriction
    ELSE IF CaseVariant(w, extension) THEN extension
    ELSE IF CaseVariant(w, <<"C">>) THEN <<"C">>
    ELSE IF CaseVariant(w, <<"F">>) THEN <<"F">>
    ELSE w

\* C16: a letter-case variant of 'restriction' or 'extension' and of 'C' or
\* 'F' is accepted and the call does what the call with the canonical
\* spellings does, the order stored being 'C' or 'F'; another map kind, or
\* another order where the checks before it pass, is rejected with an
\* InvalidArgument error
C16_CaseInsensitive ==
    mres.op = "construct" =>
        LET canon == FunctionSetMapping_init(mres.cls,
                         Canonical(mres.map_type), mres.fset, mres.grid,
                         mres.dspace, Canonical(mres.order), mres.linear)
        IN  /\ (~Violated(1) /\ ~Violated(7)) =>
                  /\ mres.error = canon.error
                  /\ mres.msg = canon.msg
                  /\ mres.error = "none" =>
                        /\ maps = <<canon.obj>>
                        /\ maps[1].order \in {<<"C">>, <<"F">>}
            /\ Violated(1) =>
                  /\ mres.error = "ValueError"
                  /\ mres.msg = "map_type"
                  /\ maps = <<>>
            /\ (Violated(7) /\ \A k \in 1..6 : ~Violated(k)) =>
                  /\ mres.error = "ValueError"
                  /\ mres.msg = "order"
                  /\ maps = <<>>

\* 'EXTENSION' and 'f' were handed over and a mapping of order 'F' from the
\* data space to the function set was returned
C16_Witness ==
    /\ mres.op = "construct"
    /\ mres.map_type = upper(extension)
    /\ mres.order = <<"f">>
    /\ Len(maps) = 1
    /\ maps[1].order = <<"F">>
    /\ maps[1].domain = mres.dspace

\* C17: GridCollocation and NearestInterpolation are linear exactly when
\* the function set is a function space; a linear mapping is constructed
\* only if the function set is a function space and the data space an
\* FnBase with the field of the function space, a difference of the fields
\* being an InvalidArgument error; a mapping that is not linear is
\* constructed whatever the three are
C17_Linear ==
    mres.op = "construct" =>
        /\ mres.cls \in {"GridCollocation", "NearestInterpolation"} =>
              (mres.linear <=> mres.fset.cls = "FunctionSpace")
        /\ mres.error = "none" => maps[1].linear = mres.linear
        /\ (mres.linear /\ mres.error = "none") =>
              /\ mres.fset.cls = "FunctionSpace"
              /\ mres.dspace.cls = "FnBase"
              /\ mres.fset.field = mres.dspace.field
        /\ (/\ mres.linear
            /\ \A k \in 1..7 : ~Violated(k)
            /\ mres.fset.cls = "FunctionSpace"
            /\ mres.dspace.cls = "FnBase"
            /\ mres.fset.field # mres.dspace.field) =>
              /\ mres.error = "ValueError"
              /\ maps = <<>>
        /\ (~mres.linear /\ \A k \in 1..7 : ~Violated(k)) =>
              mres.error = "none"

\* a collocation on a function space over R with a data space over C
C17_Witness ==
    /\ mres.op = "construct"
    /\ mres.cls = "GridCollocation"
    /\ mres.fset = [cls |-> "FunctionSpace", field |-> "R"]
    /\ mres.dspace.cls = "FnBase"
    /\ mres.dspace.field = "C"
    /\ mres.msg = "field"

\* C18: two mappings are equal if and only if they are of one class and
\* have the same domain, range, grid and order; a GridCollocation and a
\* NearestInterpolation of the same function set, grid, data space and
\* order are not equal; the relation is reflexive and symmetric
C18_Equality ==
    mres.op = "eq" =>
        /\ mres.result <=> (/\ maps[1].cls = mres.other.cls
                             /\ maps[1].domain = mres.other.domain
                             /\ maps[1].range = mres.other.range
                             /\ maps[1].grid = mres.other.grid
                             /\ maps[1].order = mres.other.order)
        /\ (/\ maps[1].cls = "GridCollocation"
            /\ mres.other.cls = "NearestInterpolation"
            /\ maps[1].domain = mres.other.range
            /\ maps[1].range = mres.other.domain
            /\ maps[1].grid = mres.other.grid
            /\ maps[1].order = mres.other.order) => ~mres.result
        /\ mres.self
        /\ mres.result = mres.reverse

\* a mapping was compared with one that differs from it in nothing but the
\* order
C18_Witness ==
    /\ mres.op = "eq"
    /\ maps[1].cls = mres.other.cls
    /\ maps[1].domain = mres.other.domain
    /\ maps[1].range = mres.other.range
    /\ maps[1].grid = mres.other.grid
    /\ maps[1].order = <<"C">>
    /\ mres.other.order = <<"F">>
    /\ ~mres.result

(***************************************************************************)
(* Claims about the grid machine.                                          *)
(***************************************************************************)
\* the values of f at the grid points, in the order of the mapping
ValuesAtPoints(f) ==
    [k \in 1..ntotal(grid) |-> FuncAtPoint(f, points(grid, order)[k])]

\* every coordinate variable occurs in the callable of f
UsesEveryVariable(f) == \A d \in 1..Len(grid) : f.c[d] # 0

\* C2 as the claim states it: for every grid, order and function f,
\* collocation returns the vector of length grid.ntotal of the values of f
\* at the grid points in the order of the mapping, and the three evaluation
\* strategies return the same
C2_AsStated ==
    gres.op = "collocation" =>
        /\ gres.result.ok
        /\ Len(gres.result.val) = ntotal(grid)
        /\ gres.result.val = ValuesAtPoints(gres.f)
        /\ \A t \in Vectorizations :
              GridCollocation_call(grid, order,
                  [gres.f EXCEPT !.vectorization = t]) = gres.result

\* C2: for every grid, every order in {C, F} and every function f that is
\* not tagged 'meshgrid' or in whose callable every coordinate variable
\* occurs, collocation returns a vector of length grid.ntotal whose k-th
\* component is f at the k-th grid point in the order of the mapping; for a
\* function in which every variable occurs the three strategies return the
\* same vector
C2_Collocation ==
    gres.op = "collocation" =>
        /\ (gres.f.vectorization # "meshgrid" \/ UsesEveryVariable(gres.f)) =>
              /\ gres.result.ok
              /\ Len(gres.result.val) = ntotal(grid)
              /\ gres.result.val = ValuesAtPoints(gres.f)
        /\ UsesEveryVariable(gres.f) =>
              \A t \in Vectorizations :
                  GridCollocation_call(grid, order,
                      [gres.f EXCEPT !.vectorization = t]) = gres.result

\* a 'meshgrid' function of both variables collocated in order 'F' on a grid
\* of two axes of different lengths above 1
C2_Witness ==
    /\ gres.op = "collocation"
    /\ gres.f.vectorization = "meshgrid"
    /\ UsesEveryVariable(gres.f)
    /\ order = "F"
    /\ Len(grid) = 2
    /\ Len(grid[1]) = 2
    /\ Len(grid[2]) = 3
    /\ gres.result.ok

\* the coordinates queried on axis d in the call of gres
QueryAxis(d) ==
    CASE gres.vectorization = "meshgrid" -> gres.arg[d]
      [] gres.vectorization = "array" ->
            [p \in 1..Len(gres.arg) |-> gres.arg[p][d]]
      [] gres.vectorization = "none" -> <<gres.arg[d]>>

\* the positions of the result of the call of gres
Positions ==
    CASE gres.vectorization = "meshgrid" ->
            IndexTuples([d \in 1..Len(grid) |-> Len(gres.arg[d])])
      [] gres.vectorization = "array" -> 1..Len(gres.arg)
      [] gres.vectorization = "none" -> {1}

\* where the coordinate of position t is in QueryAxis(d)
PosAxis(t, d) == IF gres.vectorization = "meshgrid" THEN t[d] + 1 ELSE t

\* the query point, the value returned and the indices resolved at t
PosPoint(t) == [d \in 1..Len(grid) |-> QueryAxis(d)[PosAxis(t, d)]]

PosValue(t) ==
    CASE gres.vectorization = "meshgrid" -> gres.result.at[t]
      [] gres.vectorization = "array" -> gres.result[t]
      [] gres.vectorization = "none" -> gres.result

PosIdx(t) == [d \in 1..Len(grid) |-> gres.idx[d][PosAxis(t, d)]]

Abs(n) == IF n < 0 THEN 0 - n ELSE n

\* j is an index of the axis whose coordinate is nearest to q
NearestOn(ax, q, j) ==
    /\ j \in 0..(Len(ax) - 1)
    /\ \A j2 \in 0..(Len(ax) - 1) : Abs(q - ax[j + 1]) <= Abs(q - ax[j2 + 1])

\* C3: on every axis with at least two coordinates and for every query
\* coordinate q, the index resolved minimises |q - grid[j]| over the indices
\* of the axis; the value returned is the component of the vector that
\* belongs to the grid point at the tuple of the indices resolved
C3_Nearest ==
    gres.op = "nearest" =>
        /\ \A d \in 1..Len(grid) : \A a \in 1..Len(QueryAxis(d)) :
              Len(grid[d]) >= 2 =>
                  NearestOn(grid[d], QueryAxis(d)[a], gres.idx[d][a])
        /\ \A t \in Positions :
              \E k \in 1..ntotal(grid) :
                  /\ points(grid, order)[k] =
                        [d \in 1..Len(grid) |-> PyAt(grid[d], PosIdx(t)[d])]
                  /\ PosValue(t) = dvec[k]

\* a query strictly inside an interval, nearer to its lower edge, and one
\* outside the axis, on a grid of two axes in order 'F'
C3_Witness ==
    /\ gres.op = "nearest"
    /\ gres.vectorization = "array"
    /\ grid = <<<<0, 3, 4>>, <<0, 4>>>>
    /\ order = "F"
    /\ gres.arg = <<<<1, 5>>, <<3, -1>>>>
    /\ gres.idx = <<<<0, 1>>, <<1, 0>>>>

\* C4: a query at a grid point returns the component of the vector that
\* corresponds to that grid point
C4_Exact ==
    gres.op = "nearest" =>
        \A t \in Positions : \A k \in 1..ntotal(grid) :
            points(grid, order)[k] = PosPoint(t) => PosValue(t) = dvec[k]

\* the first and the last point of a grid of 3 by 2 points in order 'F' are
\* queried, and so is the only point of an axis of one point
C4_Witness ==
    /\ gres.op = "nearest"
    /\ \/ /\ gres.vectorization = "meshgrid"
          /\ grid = <<<<0, 3, 4>>, <<0, 3>>>>
          /\ order = "F"
          /\ gres.arg = <<<<0, 4>>, <<3>>>>
          /\ gres.result.at[<<1, 0>>] = dvec[6]
          /\ dvec[6] # dvec[4]
       \/ /\ gres.vectorization = "none"
          /\ grid = <<<<3>>, <<0, 4>>>>
          /\ gres.arg = <<3, 4>>
          /\ gres.result = dvec[2]

\* the argument with every coordinate moved into the range of its axis
ClampCoord(ax, q) ==
    IF q < ax[1] THEN ax[1] ELSE IF q > ax[Len(ax)] THEN ax[Len(ax)] ELSE q

ClampArg ==
    CASE gres.vectorization = "meshgrid" ->
            [d \in 1..Len(grid) |-> [a \in 1..Len(gres.arg[d]) |->
                ClampCoord(grid[d], gres.arg[d][a])]]
      [] gres.vectorization = "array" ->
            [p \in 1..Len(gres.arg) |-> [d \in 1..Len(grid) |->
                ClampCoord(grid[d], gres.arg[p][d])]]
      [] gres.vectorization = "none" ->
            [d \in 1..Len(grid) |-> ClampCoord(grid[d], gres.arg[d])]

\* C5: a query with coordinates beyond the last or below the first
\* coordinate of an axis returns what the query returns in which these
\* coordinates are replaced by the last and the first coordinate
C5_Clamped ==
    gres.op = "nearest" =>
        gres.result =
            NearestInterpolation_call(grid, order, dvec, gres.vectorization,
                                      ClampArg).result

\* a coordinate above the last and one below the first coordinate of axes of
\* several points
C5_Witness ==
    /\ gres.op = "nearest"
    /\ Len(grid) = 2
    /\ Len(grid[1]) = 3
    /\ Len(grid[2]) = 2
    /\ \E t \in Positions :
          /\ PosPoint(t)[1] > grid[1][3]
          /\ PosPoint(t)[2] < grid[2][1]
          /\ PosIdx(t) = <<2, 0>>

\* C6: a query coordinate at the midpoint of grid[i] and grid[i + 1]
\* resolves to i, in the pointwise and in the meshgrid interpolator
C6_Tie ==
    gres.op = "nearest" =>
        \A d \in 1..Len(grid) : \A a \in 1..Len(QueryAxis(d)) :
            \A i \in 0..(Len(grid[d]) - 2) :
                2 * QueryAxis(d)[a] = grid[d][i + 1] + grid[d][i + 2] =>
                    gres.idx[d][a] = i

\* the midpoint 2 of 0 and 4 is queried through the meshgrid interpolator
C6_Witness ==
    /\ gres.op = "nearest"
    /\ gres.vectorization = "meshgrid"
    /\ grid = <<<<3, 4>>, <<0, 4>>>>
    /\ gres.arg = <<<<3>>, <<2>>>>
    /\ gres.idx = <<<<0>>, <<0>>>>

\* C19: on the grid with the axes [1, 2] and [3, 4, 5], f(x1, x2) = x1 - x2
\* is collocated to [-2, -3, -4, -1, -2, -3] in order 'C' and to
\* [-2, -1, -3, -2, -4, -3] in order 'F', in its 'meshgrid' and in its
\* 'array' form alike
C19_Doctest ==
    (/\ gres.op = "collocation"
     /\ grid = DoctestGrid
     /\ gres.f.c = <<1, -1>>
     /\ gres.f.k = 0
     /\ gres.f.vectorization \in {"meshgrid", "array"}) =>
        /\ gres.result.ok
        /\ order = "C" => gres.result.val = <<-2, -3, -4, -1, -2, -3>>
        /\ order = "F" => gres.result.val = <<-2, -1, -3, -2, -4, -3>>

\* the 'meshgrid' form of x1 - x2 was collocated on that grid in order 'F'
C19_Witness ==
    /\ gres.op = "collocation"
    /\ grid = DoctestGrid
    /\ order = "F"
    /\ gres.f = [c |-> <<1, -1>>, k |-> 0, vectorization |-> "meshgrid"]
    /\ gres.result.val = <<-2, -1, -3, -2, -4, -3>>

\* the grid point at an index tuple
PointAt(idx) == [d \in 1..Len(grid) |-> grid[d][idx[d] + 1]]

\* the flat position (0-based) of an index tuple of a grid of one or two
\* axes in which the first axis varies fastest, and in which the last does
FirstFastest(idx) ==
    IF Len(grid) = 1 THEN idx[1] ELSE idx[1] + Len(grid[1]) * idx[2]

LastFastest(idx) ==
    IF Len(grid) = 1 THEN idx[1] ELSE idx[1] * Len(grid[2]) + idx[2]

C28_AsStated ==
    gres.op = "nearest" =>
        \A d \in 1..Len(grid) : \A a \in 1..Len(QueryAxis(d)) :
            LET L == Len(grid[d])
                found == FindIndex(grid[d], QueryAxis(d)[a])
            IN  /\ found.i \in 0..(IF L >= 2 THEN L - 2 ELSE 0)
                /\ found.yi.den # 0
                /\ gres.idx[d][a] \in 0..(L - 1)

(***************************************************************************)
(* Statements over the space machine: symmetry of equals.                  *)
(***************************************************************************)
\* C25 as stated: equality of spaces is symmetric, A.equals(B) gives what
\* B.equals(A) gives for all spaces A and B of the classes CudaEN and
\* CudaRN.  The pair A = CudaEN(n, float32), B = CudaRN(n) refutes it:
\* A.equals(B) holds and B.equals(A) does not.
C25_AsStated ==
    sres.op = "equals" =>
        sres.result = equals(spcs[sres.b], spcs[sres.a])

(***************************************************************************)
(* Statements over the vector machine: what an operation leaves alone.     *)
(***************************************************************************)
\* the buffer of vector v holds after the step what it held before
KeepsBuffer(v) == mem'[vecs[v].data] = mem[vecs[v].data]

\* the vector written by the step: z of lincomb, y of multiply
Written ==
    IF last'.op = "lincomb" THEN {last'.z}
    ELSE IF last'.op = "multiply" THEN {last'.y}
    ELSE {}

\* the step leaves the space and every host array as they are
KeepsSpaceAndHost ==
    /\ space' = space
    /\ Len(host') >= Len(host)
    /\ \A i \in 1..Len(host) : host'[i] = host[i]

\* C29 as stated: lincomb changes only z and multiply changes only y, every
\* other vector keeps its value, and so do the host arrays and the space.
\* A vector made by element(data_ptr) from the buffer of the written vector
\* refutes it: it is another vector, and it changes with the written one.
C29_AsStated ==
    [][/\ KeepsSpaceAndHost
       /\ \A w \in Written : \A v \in VecIds \ {w} : KeepsBuffer(v)]_vars

\* C29: lincomb changes only the buffer of z and multiply only the buffer
\* of y: every vector that does not share the buffer of the written vector
\* keeps its value, no step changes a host array handed to element(data),
\* and no step changes the n and the dtype of the space.
C29_Frame ==
    [][/\ KeepsSpaceAndHost
       /\ vecs' # vecs => Written = {}
       /\ \A w \in Written : \A v \in VecIds :
             vecs[v].data # vecs[w].data => KeepsBuffer(v)]_vars

\* C29 witness: a lincomb wrote z, while x is another vector with a buffer
\* of its own that kept its value, and a host array was handed over before
C29_Witness ==
    /\ last.op = "lincomb"
    /\ last.x # last.z
    /\ vecs[last.x].data # vecs[last.z].data
    /\ Read(last.x) = last.x_old
    /\ Read(last.z) # Read(last.x)
    /\ Len(host) > 0
    /\ last.a = 2 /\ last.b = -1

(***************************************************************************)
(* The textual form of a vector, CudaEN.Vector.__repr__.  A text is the    *)
(* sequence of its tokens: the brackets of a list, its numbers and the     *)
(* ellipsis; the separating commas are left out.                           *)
(***************************************************************************)
\* the largest dimension of the vectors that are rendered
MaxReprN == 8

Tok(s) == [tok |-> s, val |-> 0]
Num(v) == [tok |-> "num", val |-> v]

\* repr(a.tolist()) for a host array a
ListRepr(a) == <<Tok("[")>> \o [i \in 1..Len(a) |-> Num(a[i])] \o <<Tok("]")>>

\* text.rstrip(ch)
RECURSIVE rstrip(_, _)
rstrip(text, ch) ==
    IF Len(text) > 0 /\ text[Len(text)] = Tok(ch)
    THEN rstrip(Front(text), ch) ELSE text

\* text.lstrip(ch)
RECURSIVE lstrip(_, _)
lstrip(text, ch) ==
    IF Len(text) > 0 /\ Head(text) = Tok(ch)
    THEN lstrip(Tail(text), ch) ELSE text

\* the slice [:k] on a vector of n components, k >= 0
SliceTo(k, n) == Slice(0, IF k < n THEN k ELSE n)

\* the slice [-k:] on a vector of n components, k > 0
SliceLast(k, n) == Slice(IF k < n THEN n - k ELSE 0, n)

\* a mutant of Vector_repr: a vector of 7 components is still listed whole
Vector_repr_UpTo7(sp, m, v) ==
    IF sp.n <= 7
    THEN [space |-> sp,
          args |-> ListRepr(Vector_getitem(m, v, FullSlice(sp.n)))]
    ELSE [space |-> sp,
          args |-> rstrip(ListRepr(Vector_getitem(m, v, SliceTo(3, sp.n))), "]")
                   \o <<Tok("...")>>
                   \o lstrip(ListRepr(Vector_getitem(m, v, SliceLast(3, sp.n))),
                             "[")]

\* Vector.__repr__: repr(self.space) + '.element(' + ... + ')', given by the
\* space and the tokens between the parentheses
Vector_repr(sp, m, v) ==
    IF sp.n < 7
    THEN [space |-> sp,
          args |-> ListRepr(Vector_getitem(m, v, FullSlice(sp.n)))]
    ELSE [space |-> sp,
          args |-> rstrip(ListRepr(Vector_getitem(m, v, SliceTo(3, sp.n))), "]")
                   \o <<Tok("...")>>
                   \o lstrip(ListRepr(Vector_getitem(m, v, SliceLast(3, sp.n))),
                             "[")]

\* Vector.__str__: str(self[:])
Vector_str(sp, m, v) == ListRepr(Vector_getitem(m, v, FullSlice(sp.n)))

\* the spaces of the vectors that are rendered
ReprSpaces ==
    {[cls |-> "CudaEN", n |-> n, dtype |-> d] : n \in 1..MaxReprN, d \in dtypes}
    \cup {[cls |-> "CudaRN", n |-> n, dtype |-> "float32"] : n \in 1..MaxReprN}

\* one vector made by space.element(data), its components all different
ReprInit ==
    /\ space \in ReprSpaces
    /\ \E base \in {0, 10} :
          /\ mem = <<[kind |-> space.dtype,
                      vals |-> [i \in 1..space.n |-> base + i]]>>
          /\ host = <<[i \in 1..space.n |-> base + i]>>
    /\ vecs = <<[space |-> space, data |-> 1]>>
    /\ last = [op |-> "init"]
    /\ nops = 0
    /\ dspace = "unused" /\ dx = "unused" /\ dres = "unused"
    /\ grid = "unused" /\ order = "unused" /\ dvec = "unused" /\ gres = "unused"
    /\ fun = "unused"
    /\ spcs = "unused" /\ sres = "unused" /\ maps = "unused" /\ mres = "unused"

\* repr(v)
ReprOp ==
    /\ \E v \in VecIds :
          last' = [op |-> "repr", v |-> v,
                   text |-> Vector_repr(space, mem, vecs[v])]
    /\ UNCHANGED <<space, mem, vecs, host, nops>>
    /\ UNCHANGED <<discVars, gridVars, spaceVars, mapVars>>

\* str(v)
StrOp ==
    /\ \E v \in VecIds :
          last' = [op |-> "str", v |-> v,
                   text |-> Vector_str(space, mem, vecs[v])]
    /\ UNCHANGED <<space, mem, vecs, host, nops>>
    /\ UNCHANGED <<discVars, gridVars, spaceVars, mapVars>>

ReprNext ==
    \/ ReprOp
    \/ StrOp

ReprSpec == ReprInit /\ [][ReprNext]_vars

(***************************************************************************)
(* Statements over the textual form.                                       *)
(***************************************************************************)
\* the numbers of a text, in the order they are rendered
Rendered(text) ==
    LET nums == SelectSeq(text, LAMBDA t : t.tok = "num")
    IN  [i \in 1..Len(nums) |-> nums[i].val]

\* the positions of the ellipsis in a text
Ellipses(text) == {i \in 1..Len(text) : text[i] = Tok("...")}

\* C23: the textual form of a vector of n components lists all of them when
\* n < 7; for n >= 7 it lists the first 3 components, one ellipsis and the
\* last 3 components, in this order; it never renders more than 6
\* components.
C23_Repr ==
    last.op = "repr" =>
        LET args == last.text.args
            all == Read(last.v)
            n == space.n
        IN  /\ Len(Rendered(args)) <= 6
            /\ Head(args) = Tok("[") /\ args[Len(args)] = Tok("]")
            /\ n < 7 => Rendered(args) = all /\ Ellipses(args) = {}
            /\ n >= 7 =>
                  /\ Rendered(args) = SubSeq(all, 1, 3) \o SubSeq(all, n - 2, n)
                  /\ Ellipses(args) = {5}

\* C23 witness: the text of a vector of 7 components, where the component
\* of index 3 alone is left out
C23_Witness ==
    /\ last.op = "repr"
    /\ space.n = 7
    /\ Ellipses(last.text.args) # {}
    /\ {i \in 1..7 : \A j \in 1..Len(Rendered(last.text.args)) :
                        Rendered(last.text.args)[j] # Read(last.v)[i]} = {4}

(***************************************************************************)
(* PixelDiscretization.element and PixelDiscretization.points: an element  *)
(* made from a function, sampled at the points, and an element made from   *)
(* a 2-D array of shape (cols, rows).                                      *)
(***************************************************************************)
\* the largest number of columns and of rows
MaxPixels == 3

\* np.linspace(begin, end, num), for a domain whose length is a multiple of
\* num - 1
linspace(begin, end, num) ==
    [i \in 1..num |-> begin + ((i - 1) * (end - begin)) \div (num - 1)]

\* np.meshgrid(xs, ys) with the default indexing 'xy': two arrays of shape
\* (len(ys), len(xs))
np_meshgrid(xs, ys) ==
    LET shape == <<Len(ys), Len(xs)>>
    IN  <<[shape |-> shape,
           at |-> [idx \in IndexTuples(shape) |-> xs[idx[2] + 1]]],
          [shape |-> shape,
           at |-> [idx \in IndexTuples(shape) |-> ys[idx[1] + 1]]]>>

\* the fields of a PixelDiscretization that element and points read
PixelGrid(begin, end, cols, rows, ord) ==
    [kind |-> "pixel", begin |-> begin, end |-> end,
     cols |-> cols, rows |-> rows, dim |-> cols * rows, order |-> ord]

\* PixelDiscretization.points
PixelDiscretization_points(d) ==
    LET xy == np_meshgrid(linspace(d.begin[1], d.end[1], d.cols),
                          linspace(d.begin[2], d.end[2], d.rows))
    IN  <<ravel(xy[1], d.order), ravel(xy[2], d.order)>>

\* PixelDiscretization.element(data) for a 2-D array data: the components
\* of the vector returned
PixelDiscretization_element_array(d, data) ==
    IF data.shape = <<d.cols, d.rows>>
    THEN [error |-> "none", vec |-> ravel(data, d.order)]
    ELSE [error |-> "ValueError", vec |-> <<>>]

\* PixelDiscretization.element(data) for a function data
PixelDiscretization_element_function(d, f) ==
    LET pts == PixelDiscretization_points(d)
    IN  [error |-> "none",
         vec |-> [k \in 1..Len(pts[1]) |->
                     FuncAtPoint(f, <<pts[1][k], pts[2][k]>>)]]

\* the functions on the rectangle
PixelFuncs ==
    {[c |-> c, k |-> 0, vectorization |-> "none"] : c \in [1..2 -> FuncCoefs]}

\* the array A of shape (cols, rows) with A[i, j] = f(x_i, y_j)
SampleArray(d, f) ==
    LET xs == linspace(d.begin[1], d.end[1], d.cols)
        ys == linspace(d.begin[2], d.end[2], d.rows)
        shape == <<d.cols, d.rows>>
    IN  [shape |-> shape,
         at |-> [idx \in IndexTuples(shape) |->
                    FuncAtPoint(f, <<xs[idx[1] + 1], ys[idx[2] + 1]>>)]]

\* a pixel discretization of the rectangle [0, cols - 1] x [0, 10 (rows - 1)],
\* a function, and nothing built yet (dres holds each element as a sequence
\* of length 1 once it is built)
PixelInit ==
    /\ \E cols \in 2..MaxPixels, rows \in 2..MaxPixels, ord \in {"C", "F"} :
          dspace = PixelGrid(<<0, 0>>, <<cols - 1, 10 * (rows - 1)>>,
                             cols, rows, ord)
    /\ dx \in PixelFuncs
    /\ dres = [function |-> <<>>, array |-> <<>>]
    /\ space = "unused" /\ mem = "unused" /\ vecs = "unused"
    /\ host = "unused" /\ last = "unused" /\ nops = "unused"
    /\ grid = "unused" /\ order = "unused" /\ dvec = "unused" /\ gres = "unused"
    /\ fun = "unused"
    /\ spcs = "unused" /\ sres = "unused" /\ maps = "unused" /\ mres = "unused"

\* space.element(f)
ElementFunction ==
    /\ dres.function = <<>>
    /\ dres' = [dres EXCEPT !.function =
                   <<PixelDiscretization_element_function(dspace, dx)>>]
    /\ UNCHANGED <<dspace, dx, vecVars, gridVars, spaceVars, mapVars>>

\* space.element(A)
ElementArray ==
    /\ dres.array = <<>>
    /\ dres' = [dres EXCEPT !.array =
                   <<PixelDiscretization_element_array(dspace,
                                                       SampleArray(dspace, dx))>>]
    /\ UNCHANGED <<dspace, dx, vecVars, gridVars, spaceVars, mapVars>>

PixelNext ==
    \/ ElementFunction
    \/ ElementArray

PixelSpec == PixelInit /\ [][PixelNext]_vars

\* C26 as stated: for either storage order the element built from a
\* function f is the flat vector of the element built from the array A of
\* shape (cols, rows) with A[i, j] = f(x_i, y_j).  A discretization of
\* 2 x 2 points and f(x, y) = x refutes it: points() runs through x first
\* under 'C', the array path through y first.
C26_AsStated ==
    (Len(dres.function) = 1 /\ Len(dres.array) = 1)
        => dres.function[1] = dres.array[1]

(***************************************************************************)
(* Statements over the mapping machine: LinearInterpolation.               *)
(***************************************************************************)
\* C22 as stated: LinearInterpolation(fspace, grid, dspace, order), for a
\* function space over an IntervalProd, a grid inside its domain and a
\* numeric data space of the size of the grid and of the field of the
\* function space, succeeds and yields a linear extension mapping, whose
\* evaluation fails with NotImplementedError.  Every such call refutes it:
\* the constructor raises TypeError.
C22_AsStated ==
    (/\ mres.op = "linear"
     /\ IsFunctionSpace(mres.fset) /\ mres.fset.domain = "IntervalProd"
     /\ IsTensorGrid(mres.grid) /\ contains_set(mres.fset, mres.grid)
     /\ IsFnBase(mres.dspace)
     /\ mres.dspace.size = mres.grid.ntotal
     /\ mres.dspace.field = mres.fset.field
     /\ mres.order \in {<<"C">>, <<"F">>})
        => /\ mres.error = "none"
           /\ Len(maps) = 1
           /\ maps[1].cls = "LinearInterpolation"
           /\ maps[1].linear
           /\ maps[1].domain = mres.dspace /\ maps[1].range = mres.fset
           /\ LinearInterpolation_call(maps[1], <<>>) = "NotImplementedError"

(***************************************************************************)
(* In-place evaluation of the two interpolators.  out is the object handed *)
(* as out: whether it is a numpy array, and its components (one axis).     *)
(* Each operator gives the outcome of the call together with what out and  *)
(* the values array of the interpolator hold after it.                     *)
(***************************************************************************)
\* the shape without its leading axes of length 1
RECURSIVE StripOnes(_)
StripOnes(shape) ==
    IF Len(shape) > 0 /\ Head(shape) = 1 THEN StripOnes(Tail(shape)) ELSE shape

\* out[:] = src for an array out of one axis: numpy broadcasts src to the
\* shape of out, dropping leading axes of length 1, and raises ValueError
\* when it cannot
AssignAll(out, src) ==
    LET stripped == StripOnes(src.shape)
    IN  IF stripped = <<Len(out.data)>>
        THEN [error |-> "none", out |-> [out EXCEPT !.data = ravel(src, "C")]]
        ELSE IF stripped = <<>>
        THEN [error |-> "none",
              out |-> [out EXCEPT !.data =
                          [k \in 1..Len(out.data) |-> ravel(src, "C")[1]]]]
        ELSE [error |-> "ValueError", out |-> out]

\* an array of one axis as a record of shape and values
Array1(seq) == [shape |-> <<Len(seq)>>, at |-> [t \in IndexTuples(<<Len(seq)>>) |-> seq[t[1] + 1]]]

\* a mutant of Pointwise_call_into: the result is written into the values
\* of the interpolator
Pointwise_call_into_Values(g, values, xi, out) ==
    IF ~out.ndarray
    THEN [error |-> "TypeError", out |-> out, values |-> values]
    ELSE IF Len(out.data) # Len(xi)
    THEN [error |-> "ValueError", out |-> out, values |-> values]
    ELSE [error |-> "none", out |-> out,
          values |-> [values EXCEPT !.at =
                         [t \in DOMAIN values.at |->
                             Pointwise_call(g, values, xi).result[1]]]]

\* _NearestPointwiseInterpolator.__call__(xi, out) for an array xi of
\* points of the dimension of the grid, one per row
Pointwise_call_into(g, values, xi, out) ==
    IF ~out.ndarray
    THEN [error |-> "TypeError", out |-> out, values |-> values]
    ELSE IF Len(out.data) # Len(xi)
    THEN [error |-> "ValueError", out |-> out, values |-> values]
    ELSE LET a == AssignAll(out, Array1(Pointwise_call(g, values, xi).result))
         IN  [error |-> a.error, out |-> a.out, values |-> values]

\* _NearestMeshgridInterpolator.__call__(xi, out) for a tuple xi of
\* coordinate vectors, one per axis of the grid
Meshgrid_call_into(g, values, xi, out) ==
    LET n == Prod([d \in 1..Len(xi) |-> Len(xi[d])])
    IN  IF ~out.ndarray
        THEN [error |-> "TypeError", out |-> out, values |-> values]
        ELSE IF Len(out.data) # n
        THEN [error |-> "ValueError", out |-> out, values |-> values]
        ELSE LET a == AssignAll(out, Meshgrid_call(g, values, xi).result)
             IN  [error |-> a.error, out |-> a.out, values |-> values]

\* interpolator(xi, out) by the class of the interpolator
Interpolator_call_into(cls, g, values, xi, out) ==
    IF cls = "pointwise"
    THEN Pointwise_call_into(g, values, xi, out)
    ELSE Meshgrid_call_into(g, values, xi, out)

(***************************************************************************)
(* The function machine: a NearestInterpolation mapping (grid, order) is   *)
(* applied to the vector dvec, which gives a function; the function is     *)
(* evaluated, and the vector is written in between.  fun holds the         *)
(* function: its vectorization, what the vector held when the mapping was  *)
(* applied, and the number of writes to the vector since then.  The        *)
(* function refers to the vector itself, as the closures of _call do.  An  *)
(* interpolator can also be called directly with an output buffer.         *)
(***************************************************************************)
\* the number of writes to the vector after the mapping was applied
MaxWrites == 1

FunGrids == {<<<<0, 4>>>>, <<<<0, 3, 4>>>>, <<<<0, 3>>, <<0, 3, 4>>>>}

FunCoords == {-1, 1, 2, 4}

\* the arguments handed to the function, by its vectorization
FunQueries(nd, vectorization) ==
    CASE vectorization = "none" -> [1..nd -> FunCoords]
      [] vectorization = "array" ->
            {<<p, Mirror(p)>> : p \in [1..nd -> FunCoords]}
      [] vectorization = "meshgrid" ->
            [1..nd -> {<<a>> : a \in FunCoords} \cup {<<-1, 4>>, <<2, 1>>}]

\* the points handed to an interpolator that is called directly
InterpolatorQueries(nd, cls) ==
    IF cls = "pointwise"
    THEN {<<p>> : p \in [1..nd -> FunCoords]}
         \cup {<<p, Mirror(p)>> : p \in [1..nd -> FunCoords]}
    ELSE FunQueries(nd, "meshgrid")

\* the number of points of a query
NumPoints(cls, xi) ==
    IF cls = "pointwise" THEN Len(xi)
    ELSE Prod([d \in 1..Len(xi) |-> Len(xi[d])])

\* the objects handed as out for n points: arrays of n and of n + 1
\* components, and a list
OutBuffers(n) ==
    {[ndarray |-> TRUE, data |-> [i \in 1..k |-> 0]] : k \in {n, n + 1}}
    \cup {[ndarray |-> FALSE, data |-> [i \in 1..n |-> 0]]}

FunInit ==
    /\ grid \in FunGrids
    /\ order \in {"C", "F"}
    /\ dvec \in DVecs(ntotal(grid))
    /\ gres = [op |-> "init"]
    /\ fun = <<>>
    /\ space = "unused" /\ mem = "unused" /\ vecs = "unused"
    /\ host = "unused" /\ last = "unused" /\ nops = "unused"
    /\ dspace = "unused" /\ dx = "unused" /\ dres = "unused"
    /\ spcs = "unused" /\ sres = "unused" /\ maps = "unused" /\ mres = "unused"

\* f = mapping(x, vectorization): _call builds the closure
Apply ==
    /\ fun = <<>>
    /\ gres.op = "init"
    /\ \E v \in Vectorizations :
          fun' = <<[vectorization |-> v, applied |-> dvec, writes |-> 0]>>
    /\ UNCHANGED <<grid, order, dvec, gres, vecVars, discVars, spaceVars, mapVars>>

\* x[k] = 99, after the mapping was applied
SetComponent ==
    /\ fun # <<>>
    /\ fun[1].writes < MaxWrites
    /\ \E k \in 1..Len(dvec) : dvec' = [dvec EXCEPT ![k] = 99]
    /\ fun' = <<[fun[1] EXCEPT !.writes = @ + 1]>>
    /\ UNCHANGED <<grid, order, gres, vecVars, discVars, spaceVars, mapVars>>

\* f(arg): the closure reshapes x.data and interpolates
Evaluate ==
    /\ fun # <<>>
    /\ \E arg \in FunQueries(Len(grid), fun[1].vectorization) :
          LET r == NearestInterpolation_call(grid, order, dvec,
                                             fun[1].vectorization, arg)
          IN  gres' = [op |-> "evaluate", arg |-> arg, idx |-> r.idx,
                       result |-> r.result]
    /\ UNCHANGED <<grid, order, dvec, fun, vecVars, discVars, spaceVars, mapVars>>

\* interpolator(xi, out) for an interpolator over the values of x
EvaluateInto ==
    /\ fun = <<>>
    /\ gres.op = "init"
    /\ \E cls \in {"pointwise", "meshgrid"} :
       \E xi \in InterpolatorQueries(Len(grid), cls) :
       \E out \in OutBuffers(NumPoints(cls, xi)) :
          LET r == Interpolator_call_into(cls, grid,
                       InterpValues(grid, order, dvec), xi, out)
          IN  /\ gres' = [op |-> "into", cls |-> cls, arg |-> xi,
                          out_before |-> out, out |-> r.out,
                          error |-> r.error]
              /\ dvec' = ravel(r.values, order)
    /\ UNCHANGED <<grid, order, fun, vecVars, discVars, spaceVars, mapVars>>

FunNext ==
    \/ Apply
    \/ SetComponent
    \/ Evaluate
    \/ EvaluateInto

FunSpec == FunInit /\ [][FunNext]_vars

(***************************************************************************)
(* Statements over the function machine.                                   *)
(***************************************************************************)
\* what the call of gres returns without out, as a flat sequence
OutOfPlace ==
    LET values == InterpValues(grid, order, dvec)
    IN  IF gres.cls = "pointwise"
        THEN Pointwise_call(grid, values, gres.arg).result
        ELSE ravel(Meshgrid_call(grid, values, gres.arg).result, "C")

\* C21 as stated: an in-place evaluation, pointwise or meshgrid, fails with
\* an InvalidArgument error and leaves out as it was when the shape of out
\* is not (number of query points,), and otherwise fills out with the
\* values that the call without out returns.  The meshgrid interpolator
\* refutes the second half: for a mesh with more than one coordinate on
\* the first of two axes it raises ValueError on a buffer of the right
\* shape.
C21_AsStated ==
    gres.op = "into" =>
        IF ~gres.out_before.ndarray
           \/ Len(gres.out_before.data) # NumPoints(gres.cls, gres.arg)
        THEN gres.error \in InvalidArgument /\ gres.out = gres.out_before
        ELSE gres.error = "none" /\ gres.out.data = OutOfPlace

\* C24: a step that evaluates the function, or calls an interpolator with
\* an output buffer, changes neither the mapping (grid and order, and with
\* them domain and range) nor the vector the mapping was applied to nor
\* the function, and what an evaluation yields is decided by the mapping,
\* the vector and the argument alone, whatever was evaluated before.
C24_Frame ==
    [][gres' # gres =>
          /\ grid' = grid /\ order' = order
          /\ dvec' = dvec
          /\ fun' = fun
          /\ gres'.op = "evaluate" =>
                gres'.result =
                    NearestInterpolation_call(grid, order, dvec,
                        fun[1].vectorization, gres'.arg).result]_vars

\* C24 witness: the function of a grid of two axes was evaluated on a mesh
\* of more than one point, the vector being what it was at application
C24_Witness ==
    /\ gres.op = "evaluate"
    /\ Len(grid) = 2
    /\ fun[1].vectorization = "meshgrid"
    /\ Len(gres.arg[1]) = 2 /\ Len(gres.arg[2]) = 2
    /\ dvec = fun[1].applied
    /\ gres.result.at[<<0, 0>>] # gres.result.at[<<1, 1>>]

\* C27 as stated: the function returned by the mapping applied to v is
\* fixed when the mapping is applied; writing v afterwards does not change
\* what the function yields.  A write to v between application and
\* evaluation refutes it: the function yields the new component.
C27_AsStated ==
    gres.op = "evaluate" =>
        gres.result =
            NearestInterpolation_call(grid, order, fun[1].applied,
                fun[1].vectorization, gres.arg).result

====
